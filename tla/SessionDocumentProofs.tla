------------------------ MODULE SessionDocumentProofs ------------------------
(***************************************************************************)
(* Proofs about the pages of a session: where each acknowledged page is    *)
(* recorded, written, shown, logged and kept, what a saved document holds, *)
(* and that the manager implements SessionLifecycle.                       *)
(*                                                                         *)
(* A theorem names the operations that must not fail for it, and goes for  *)
(* every order of actions, goroutines, crashes and restarts, and for every *)
(* other failure.  Each rests on IInv (SessionProofs) and on one of the    *)
(* invariants of SessionProperties.                                        *)
(***************************************************************************)
EXTENDS SessionProofs, SessionRefinement

(* The numbers of pages, their files, and documents.                       *)

\* What says where the pages are.
pageVars == <<rowPages, taken, files, pages, cur, lastId, abort, converted>>

\* A step with nothing to say of pages.
Stay ==
    /\ UNCHANGED <<pageVars, jobs>>
    /\ pc' = pc \/ (pc # "append" /\ pc' \notin {"append", "mkdir"})

\* A goroutine goes on without writing its file ...
Pass(j) ==
    /\ j.stage \notin Converting /\ UNCHANGED <<pageVars, pc>>
    /\ \/ jobs' = jobs \ {j}
       \/ \E st \in {"count", "release"} : Advance(j, st)

\* ... or goes on.
Goes(j) == BeginWriting(j) \/ Convert(j) \/ ConvertFails(j) \/ Pass(j)

NoFiles == [p \in PageNos |-> Absent]

\* The session in memory is cleared by an ending ...
Close ==
    /\ pc \in EndPoints /\ pc' \notin {"append", "mkdir"}
    /\ cur' = None /\ pages' = << >>
    /\ files' = files \/ files' = [files EXCEPT ![cur] = NoFiles]
    /\ UNCHANGED <<rowPages, taken, lastId, jobs, converted>>

\* ... or lost with the process.
Lose ==
    /\ cur' = None /\ pages' = << >> /\ jobs' = {} /\ pc' = "down"
    /\ UNCHANGED <<rowPages, taken, files, lastId, converted>>

\* What does not fail.
LEMMA NoFault ==
  ASSUME RecordingWorks
  PROVE  ~Fault("add-page") /\ ~Fault("load-pages")
BY DEF RecordingWorks, Fault

\* A page never meets its own number in the database.
LEMMA AddPageWorks ==
  ASSUME RecordingWorks, NumberInv, ControlInv, SlotTypes, AddPageFails
  PROVE  FALSE
<1>1. cur # None /\ pc = "add-page" /\ NextPage \in rowPages[cur]
  BY NoFault DEF AddPageFails, FailsIf, ControlInv, HeldPoints
<1>2. rowPages[cur] = 1..Len(pages)
  BY <1>1 DEF NumberInv
<1> QED
  BY <1>1, <1>2 DEF NextPage, SlotTypes

\* Every step is one of ten kinds, as far as pages are concerned.
LEMMA ShapeStep ==
  ASSUME RecordingWorks, NumberInv, ControlInv, SlotTypes, DiskTypes, Next
  PROVE  \/ Stay \/ Close \/ Lose
         \/ CreateSession \/ MakeWorkDir \/ AddPage \/ AppendPage
         \/ \E j \in jobs : Goes(j)
         \/ \E s \in Sessions : RecoverSession(s)
<1> USE DEF Stay, pageVars, rowVars, diskVars, memoryVars, jobVars, history,
            Goto, Return
<1>1. ASSUME NEW a \in Commands, Do(a) PROVE Stay
  BY <1>1 DEF Do, EntryPoint
<1>2. ASSUME ScanStep, ~CreateSession, ~MakeWorkDir, ~AddPage, ~AppendPage
      PROVE  Stay
  BY <1>2, AddPageWorks
     DEF ScanStep, Scan, CreateSessionFails, MakeWorkDirFails, BeginScan,
         AcquireImage, AcquireImageFails, ScanFailed, RefreshPage
<1>3. CASE FailSession \/ CloseSaved \/ CloseDiscarded
  BY <1>3 DEF FailSession, CloseSaved, CloseDiscarded, ClearSession, RemoveWork,
              FinishSession, Close, NoFiles, EndPoints
<1>4. ASSUME FinishStep, ~FailSession, ~CloseSaved, ~CloseDiscarded
      PROVE  Stay
  BY <1>4
     DEF FinishStep, FinishNothing, FinishBegin, Merge, MergeFails,
         SaveSession, UploadSucceeds, UploadFails, UploadUnrecorded, Upload,
         DiscardBegin, DiscardSession, FinishSession
<1>5. ASSUME NEW j \in jobs, Process(j) PROVE Goes(j)
  BY <1>5 DEF Process, ReportProcessed, ReportBroken, CountDown, Release, Pass, Goes,
              Converting
<1>6. CASE Crash
  BY <1>6 DEF Crash, Lose
<1>8. ASSUME NEW s \in Sessions, MarkLost(s) \/ RestartIdle PROVE Stay
  BY <1>8 DEF MarkLost, RestartIdle, FinishSession
<1>9. ASSUME NEW s \in Sessions, RecoverWithoutPages(s) PROVE FALSE
  BY <1>9, NoFault DEF RecoverWithoutPages
<1>10. CASE RestartIdle
  BY <1>10 DEF RestartIdle
<1> QED
  BY <1>1, <1>2, <1>3, <1>4, <1>5, <1>6, <1>8, <1>9, <1>10
     DEF Next, Restart, ScanStep, FinishStep

\* A restart resumes with the pages in the order of their numbers.
LEMMA Recovered ==
  ASSUME NumberInv, ControlInv, DatabaseTypes, NEW s \in Sessions,
         RecoverSession(s)
  PROVE  \E n \in 0..MaxScans :
             /\ rowPages[s] = 1..n /\ n \in Nat
             /\ pages' \in Seq(PageNos)
             /\ Len(pages') = n /\ \A i \in 1..n : pages'[i] = i
             /\ cur' = s /\ cur = None /\ jobs' = jobs /\ pc = "down"
             /\ pc' = "ready"
             /\ UNCHANGED <<rowPages, taken, files, lastId, rowStatus, rowOutput,
                            docs, abort, converted>>
<1>1. PICK n \in 0..MaxScans : rowPages[s] = 1..n
  BY DEF NumberInv
<1>2. n \in Nat
  BY <1>1, BoundsAssumption
<1>3. PICK q \in [1..Cardinality(rowPages[s]) -> rowPages[s]] :
          IsSessionPages(q, s) /\ Resume(s, q)
  BY DEF RecoverSession
<1>4. Cardinality(1..n) = n
  BY <1>2, FS_Interval
<1>5. q \in [1..n -> 1..n]
  BY <1>1, <1>3, <1>4
<1>6. ASSUME NEW i \in 1..n PROVE q[i] = i
  <2>0. q[i] \in 1..n /\ i \in 1..n
    BY <1>5, <1>6
  <2>1. q[i] \in 1..n /\ q[i] \in Nat /\ q[i] >= 1
    BY <1>2, <2>0
  <2>2. {p \in rowPages[s] : p <= q[i]} = 1..q[i]
    BY <1>1, <1>2, <2>1
  <2>3. Cardinality({p \in rowPages[s] : p <= q[i]}) = i
    BY <1>3, <1>5, <1>6 DEF IsSessionPages
  <2>4. Cardinality(1..q[i]) = q[i]
    BY <2>1, FS_Interval
  <2> QED
    BY <2>2, <2>3, <2>4
<1>7. 1..n \subseteq PageNos
  BY <1>1, DatabaseTypes DEF DatabaseTypes
<1>8. q \in Seq(PageNos) /\ Len(q) = n
  BY <1>2, <1>5, <1>7
<1>9. /\ pages' = q /\ cur' = s /\ jobs' = jobs /\ pc = "down" /\ pc' = "ready"
      /\ UNCHANGED <<rowPages, taken, files, lastId, rowStatus, rowOutput, docs,
                     abort, converted>>
  BY <1>3 DEF Resume, rowVars, diskVars, jobVars, history
<1>10. cur = None
  BY <1>9 DEF ControlInv
<1>11. Len(pages') = n /\ \A i \in 1..n : pages'[i] = i
  BY <1>6, <1>8, <1>9
<1> QED
  BY <1>1, <1>2, <1>8, <1>9, <1>10, <1>11

\* Pages keep their numbers.
LEMMA NumberStep ==
  ASSUME RecordingWorks, IInv, NumberInv, Next
  PROVE  NumberInv'
<1> DEFINE Rows == \A s \in Sessions : \E n \in 0..MaxScans : rowPages[s] = 1..n
           New == \A s \in Sessions :
                      lastId < s \/ (pc = "mkdir" /\ s = lastId) =>
                          rowPages[s] = {} /\ taken[s] = << >>
           Held == cur # None =>
                      /\ \A i \in 1..Len(pages) : pages[i] = i
                      /\ rowPages[cur] = 1..(IF pc = "append" THEN NextPage ELSE Len(pages))
<1>1. Rows /\ New /\ Held
  BY DEF NumberInv
<1>2. /\ SlotTypes /\ MemoryTypes /\ DatabaseTypes /\ HistoryTypes /\ DiskTypes
      /\ ControlInv /\ FreshInv /\ PageInv /\ JobInv /\ PendingIsCurrent
      /\ OpenIsActive
  BY DEF IInv, TypeOK, ManagerTypes, MemoryTypes, SlotTypes
<1>3a. Len(pages) \in Nat /\ NextPage = Len(pages) + 1
  BY <1>2 DEF SlotTypes, NextPage
<1>3b. lastId \in 0..MaxSessions /\ scans \in 0..MaxScans
  BY <1>2 DEF DatabaseTypes, HistoryTypes
<1>3c. lastId \in Nat /\ MaxScans \in Nat
  BY <1>3b, BoundsAssumption
<1>3. /\ Len(pages) \in Nat /\ NextPage = Len(pages) + 1
      /\ cur \in Sessions \cup {None} /\ lastId \in 0..MaxSessions
      /\ lastId \in Nat /\ MaxScans \in Nat /\ scans \in 0..MaxScans
      /\ rowPages \in [Sessions -> SUBSET PageNos]
      /\ taken \in [Sessions -> Seq(Images)]
  BY <1>2, <1>3a, <1>3b, <1>3c DEF DatabaseTypes, MemoryTypes, HistoryTypes
<1>4. SUFFICES Rows' /\ New' /\ Held'
  BY DEF NumberInv
<1> HIDE DEF Rows, New, Held
<1>5. CASE Stay
  BY <1>1, <1>5 DEF Stay, pageVars, Rows, New, Held, NextPage
<1>6. CASE Close \/ Lose
  BY <1>1, <1>6 DEF Close, Lose, Rows, New, Held
<1>7. CASE CreateSession
  <2>1. /\ lastId' = lastId + 1 /\ cur = None /\ cur' = None
        /\ UNCHANGED <<rowPages, taken>>
    BY <1>2, <1>7 DEF CreateSession, memoryVars, history, ControlInv
  <2>2. \A s \in Sessions : lastId' < s \/ s = lastId' => lastId < s
    BY <1>3, <2>1 DEF Sessions
  <2>3. New'
    BY <1>1, <2>1, <2>2 DEF New
  <2> QED
    BY <1>1, <2>1, <2>3 DEF Rows, Held
<1>8. CASE MakeWorkDir
  <2>1. pc = "mkdir" /\ pc' = "begin" /\ cur' = lastId /\ pages' = << >>
        /\ UNCHANGED <<rowPages, taken, lastId>>
    BY <1>8 DEF MakeWorkDir, Goto, rowVars, history
  <2>2. lastId \in Sessions
    BY <1>2, <2>1 DEF FreshInv
  <2>3. rowPages[lastId] = {}
    BY <1>1, <2>1, <2>2 DEF New
  <2> QED
    BY <1>1, <2>1, <2>3 DEF Rows, New, Held
<1>9. CASE AddPage
  <2>1. /\ pc = "add-page" /\ pc' = "append" /\ UNCHANGED <<cur, pages, lastId, taken>>
        /\ rowPages' = [rowPages EXCEPT ![cur] = @ \cup {NextPage}]
    BY <1>9 DEF AddPage, Goto, memoryVars, history
  <2>2. cur \in Sessions
    BY <1>2, <1>3, <2>1 DEF ControlInv, HeldPoints
  <2>3. rowPages[cur] = 1..Len(pages) /\ NextPage \in 1..MaxScans
    BY <1>1, <1>2, <1>3, <2>1, <2>2 DEF Held, PageInv, None, Sessions
  <2>4. rowPages'[cur] = 1..NextPage /\ NextPage' = NextPage
    BY <1>3, <2>1, <2>2, <2>3 DEF NextPage
  <2>5. \A s \in Sessions \ {cur} : rowPages'[s] = rowPages[s]
    BY <1>3, <2>1
  <2>6. ~(lastId < cur)
    BY <1>2, <2>1, <2>2 DEF OpenIsActive, FreshInv, Closing, None, Sessions
  <2>7. Rows'
    BY <1>1, <2>3, <2>4, <2>5 DEF Rows
  <2>8. New'
    BY <1>1, <2>1, <2>5, <2>6 DEF New
  <2>9. Held'
    BY <1>1, <2>1, <2>4 DEF Held
  <2> QED
    BY <2>7, <2>8, <2>9
<1>10. CASE AppendPage
  <2>1. /\ pc = "append" /\ pc' = "refresh" /\ UNCHANGED <<cur, rowPages, lastId>>
        /\ pages' = Append(pages, NextPage)
        /\ taken' = [taken EXCEPT ![cur] = Append(@, scans)]
    BY <1>10 DEF AppendPage, Goto, rowVars
  <2>2. cur \in Sessions
    BY <1>2, <1>3, <2>1 DEF ControlInv, HeldPoints
  <2>3. Len(pages') = NextPage /\ \A i \in 1..NextPage : pages'[i] = i
    BY <1>1, <1>2, <1>3, <2>1, <2>2 DEF Held, SlotTypes, None, Sessions
  <2>4. \A s \in Sessions \ {cur} : taken'[s] = taken[s]
    BY <1>3, <2>1
  <2>5. ~(lastId < cur)
    BY <1>2, <2>1, <2>2 DEF OpenIsActive, FreshInv, Closing, None, Sessions
  <2>6. New'
    BY <1>1, <2>1, <2>4, <2>5 DEF New
  <2>7. Held'
    BY <1>1, <2>1, <2>2, <2>3 DEF Held, None, Sessions
  <2> QED
    BY <1>1, <2>1, <2>6, <2>7 DEF Rows
<1>11. ASSUME NEW j \in jobs, Goes(j) PROVE Rows' /\ New' /\ Held'
  <2>1. UNCHANGED <<rowPages, taken, cur, pages, lastId, pc>>
    BY <1>11
       DEF Goes, BeginWriting, Convert, ConvertFails, Pass, pageVars, rowVars, memoryVars,
           history
  <2> QED
    BY <1>1, <2>1 DEF Rows, New, Held, NextPage
<1>12. ASSUME NEW s \in Sessions, RecoverSession(s) PROVE Rows' /\ New' /\ Held'
  BY <1>1, <1>2, <1>12, Recovered DEF Rows, New, Held
<1> QED
  BY <1>2, <1>5, <1>6, <1>7, <1>8, <1>9, <1>10, <1>11, <1>12, ShapeStep

\* What IInv says of the variables the lemmas below are about.
LEMMA Typed ==
  ASSUME IInv
  PROVE  /\ SlotTypes /\ MemoryTypes /\ DatabaseTypes /\ HistoryTypes /\ DiskTypes
         /\ ControlInv /\ FreshInv /\ PageInv /\ JobInv /\ PendingIsCurrent
         /\ OpenIsActive /\ RoomInv
         /\ Len(pages) \in Nat /\ NextPage = Len(pages) + 1
         /\ cur \in Sessions \cup {None} /\ jobs \subseteq Job
         /\ lastId \in Nat /\ MaxScans \in Nat /\ scans \in 0..MaxScans
         /\ rowPages \in [Sessions -> SUBSET PageNos]
         /\ taken \in [Sessions -> Seq(Images)]
         /\ files \in [Sessions -> [PageNos -> Contents]]
         /\ (cur = None => jobs = {})
<1>1. /\ SlotTypes /\ MemoryTypes /\ DatabaseTypes /\ HistoryTypes /\ DiskTypes
      /\ ControlInv /\ FreshInv /\ PageInv /\ JobInv /\ PendingIsCurrent
      /\ OpenIsActive /\ RoomInv
  BY DEF IInv, TypeOK, ManagerTypes, MemoryTypes, SlotTypes
<1>2. Len(pages) \in Nat /\ NextPage = Len(pages) + 1
  BY <1>1 DEF SlotTypes, NextPage
<1>3. lastId \in 0..MaxSessions /\ scans \in 0..MaxScans
  BY <1>1 DEF DatabaseTypes, HistoryTypes
<1>4. lastId \in Nat /\ MaxScans \in Nat
  BY <1>3, BoundsAssumption
<1>5. cur \in Sessions \cup {None} /\ jobs \subseteq Job
  BY <1>1 DEF MemoryTypes
<1>6. /\ rowPages \in [Sessions -> SUBSET PageNos]
      /\ taken \in [Sessions -> Seq(Images)]
      /\ files \in [Sessions -> [PageNos -> Contents]]
  BY <1>1 DEF DatabaseTypes, HistoryTypes, DiskTypes
<1>7. cur = None => jobs = {}
  BY <1>1, <1>5 DEF PendingIsCurrent, Job, Sessions, None
<1> QED
  BY <1>1, <1>2, <1>3, <1>4, <1>5, <1>6, <1>7

\* A goroutine that moves on keeps its page and gets closer to its end.
LEMMA MovesOn ==
  ASSUME jobs \subseteq Job, NEW j \in jobs, Goes(j)
  PROVE  \E a : /\ jobs' \subseteq (jobs \ {j}) \cup {a} /\ jobs \ {j} \subseteq jobs'
                /\ a.session = j.session /\ a.page = j.page /\ a.image = j.image
                /\ a.stage # "convert"
                /\ a.stage = "write" => BeginWriting(j)
                /\ BeginWriting(j) => a \in jobs' /\ a.stage = "write"
<1> DEFINE Moved(a) ==
        /\ jobs' \subseteq (jobs \ {j}) \cup {a} /\ jobs \ {j} \subseteq jobs'
        /\ a.session = j.session /\ a.page = j.page /\ a.image = j.image
        /\ a.stage # "convert"
<1>1. ASSUME NEW st \in {"write", "converted", "broken", "count", "release"},
             Advance(j, st)
      PROVE  \E a \in jobs' : Moved(a) /\ a.stage = st
  <2> DEFINE b == [j EXCEPT !.stage = st]
  <2>1. b.stage = st /\ b.session = j.session /\ b.page = j.page /\ b.image = j.image
    BY DEF Job
  <2>2. jobs' = (jobs \ {j}) \cup {b}
    BY <1>1 DEF Advance
  <2> HIDE DEF b
  <2>3. b \in jobs' /\ Moved(b)
    BY <2>1, <2>2
  <2> QED
    BY <2>1, <2>3
<1>2. ASSUME jobs' = jobs \ {j} PROVE \E a : Moved(a) /\ a.stage = "count"
  <2> DEFINE b == [j EXCEPT !.stage = "count"]
  <2>1. b.stage = "count" /\ b.session = j.session /\ b.page = j.page /\ b.image = j.image
    BY DEF Job
  <2> HIDE DEF b
  <2> QED
    BY <1>2, <2>1
<1> HIDE DEF Moved
<1>3. CASE BeginWriting(j)
  <2>1. PICK a \in jobs' : Moved(a) /\ a.stage = "write"
    BY <1>1, <1>3 DEF BeginWriting
  <2> QED
    BY <1>3, <2>1 DEF Moved
<1>4. CASE ~BeginWriting(j)
  <2>1. PICK a : Moved(a) /\ a.stage # "write"
    BY <1>1, <1>2, <1>4 DEF Goes, Convert, ConvertFails, Pass
  <2> QED
    BY <1>4, <2>1 DEF Moved
<1> QED
  BY <1>3, <1>4

\* It writes no file but its own, and counts as converted when that is complete.
LEMMA WritesOwn ==
  ASSUME NEW j \in jobs, Goes(j)
  PROVE  /\ UNCHANGED <<rowPages, taken, lastId, cur, pages, pc>>
         /\ \/ UNCHANGED files
            \/ /\ j.stage \in Converting
               /\ \E c \in {Absent, Torn, j.image} : PutFile(j, c)
         /\ \/ UNCHANGED converted
            \/ PutFile(j, j.image) /\ j.stage = "write" /\ converted' = converted \cup {j.image}
BY DEF Goes, BeginWriting, Convert, ConvertFails, Leaves, Pass, pageVars, rowVars,
       memoryVars, history, Converting

\* Page files belong to recorded pages, and each has one writer at most.
LEMMA FileStep ==
  ASSUME RecordingWorks, IInv, NumberInv, SlotInv, Next
  PROVE  SlotInv'
<1> DEFINE Rec == \A s \in Sessions : \A p \in PageNos :
                      p \notin rowPages[s] => files[s][p] = Absent
           App == pc = "append" => files[cur][NextPage] = Absent
           Wri == \A j \in jobs :
                      /\ j.page <= Len(pages)
                      /\ j.stage = "convert" => files[j.session][j.page] = Absent
                      /\ j.stage = "write" => files[j.session][j.page] = Torn
           One == \A j, k \in jobs : j.page = k.page => j = k
<1>1. Rec /\ App /\ Wri /\ One
  BY DEF SlotInv
<1>2. SUFFICES Rec' /\ App' /\ Wri' /\ One'
  BY DEF SlotInv
<1>3. /\ SlotTypes /\ ControlInv /\ JobInv /\ PageInv
      /\ Len(pages) \in Nat /\ NextPage = Len(pages) + 1
      /\ cur \in Sessions \cup {None} /\ jobs \subseteq Job
      /\ MaxScans \in Nat /\ scans \in 0..MaxScans
      /\ rowPages \in [Sessions -> SUBSET PageNos]
      /\ files \in [Sessions -> [PageNos -> Contents]]
      /\ (cur = None => jobs = {}) /\ PendingIsCurrent
      /\ DatabaseTypes /\ DiskTypes
  BY Typed
<1> HIDE DEF Rec, App, Wri, One
<1>4. CASE Stay
  BY <1>1, <1>4 DEF Stay, pageVars, Rec, App, Wri, One, NextPage
<1>5. CASE Close
  <2>1. jobs' = {} /\ pc' # "append" /\ rowPages' = rowPages
    BY <1>3, <1>5 DEF Close, JobInv
  <2>2. files' = files \/ files' = [files EXCEPT ![cur] = NoFiles]
    BY <1>5 DEF Close
  <2>3. Rec'
    BY <1>1, <1>3, <2>1, <2>2 DEF Rec, NoFiles
  <2> QED
    BY <2>1, <2>3 DEF App, Wri, One
<1>6. CASE Lose
  BY <1>1, <1>6 DEF Lose, Rec, App, Wri, One
<1>7. CASE CreateSession
  <2>1. pc' = "mkdir" /\ UNCHANGED <<rowPages, files, pages, jobs>>
    BY <1>7 DEF CreateSession, Goto, diskVars, memoryVars, jobVars
  <2> QED
    BY <1>1, <2>1 DEF Rec, App, Wri, One
<1>8. CASE MakeWorkDir
  <2>1. pc' = "begin" /\ UNCHANGED <<rowPages, files, jobs>> /\ cur = None
    BY <1>3, <1>8 DEF MakeWorkDir, Goto, rowVars, ControlInv
  <2>2. jobs' = {}
    BY <1>3, <2>1
  <2> QED
    BY <1>1, <2>1, <2>2 DEF Rec, App, Wri, One
<1>9. CASE AddPage
  <2>1. /\ pc = "add-page" /\ UNCHANGED <<cur, pages, files, jobs>>
        /\ rowPages' = [rowPages EXCEPT ![cur] = @ \cup {NextPage}]
        /\ NextPage \notin rowPages[cur]
    BY <1>9 DEF AddPage, memoryVars, diskVars, jobVars
  <2>2. cur \in Sessions
    BY <1>3, <2>1 DEF ControlInv, HeldPoints
  <2>3. NextPage \in PageNos
    BY <1>3, <2>1 DEF PageInv, PageNos
  <2>4. \A s \in Sessions : rowPages[s] \subseteq rowPages'[s]
    BY <1>3, <2>1
  <2>5. Rec'
    BY <1>1, <2>1, <2>4 DEF Rec
  <2>6. files[cur][NextPage] = Absent
    BY <1>1, <2>1, <2>2, <2>3 DEF Rec
  <2> QED
    BY <1>1, <2>1, <2>5, <2>6 DEF App, Wri, One, NextPage
<1>10. CASE AppendPage
  <2> DEFINE n == [session |-> cur, page |-> NextPage, image |-> scans, stage |-> "convert"]
  <2>1. /\ pc = "append" /\ pc' = "refresh" /\ UNCHANGED <<cur, rowPages, files>>
        /\ pages' = Append(pages, NextPage) /\ jobs' = jobs \cup {n}
    BY <1>10 DEF AppendPage, Goto, rowVars, diskVars
  <2>2. Len(pages') = NextPage
    BY <1>3, <2>1 DEF SlotTypes
  <2>3. /\ n.session = cur /\ n.page = NextPage /\ n.stage = "convert"
        /\ files[n.session][n.page] = Absent
    BY <1>1, <2>1 DEF App
  <2>4. \A j \in jobs : j.page \in Nat
    BY <1>3 DEF Job, PageNos
  <2>5. \A j \in jobs : j.page <= NextPage /\ j.page # NextPage
    BY <1>1, <1>3, <2>4 DEF Wri
  <2> HIDE DEF n
  <2>6. Wri'
    BY <1>1, <1>3, <2>1, <2>2, <2>3, <2>5 DEF Wri
  <2>7. One'
    BY <1>1, <2>1, <2>3, <2>5 DEF One
  <2> QED
    BY <1>1, <2>1, <2>6, <2>7 DEF Rec, App
<1>11. ASSUME NEW j \in jobs, Goes(j)
       PROVE  Rec' /\ App' /\ Wri' /\ One'
  <2>1. PICK a : /\ jobs' \subseteq (jobs \ {j}) \cup {a} /\ a.stage # "convert"
                 /\ a.session = j.session /\ a.page = j.page /\ a.image = j.image
                 /\ a.stage = "write" => BeginWriting(j)
    BY <1>3, <1>11, MovesOn
  <2>2. UNCHANGED <<rowPages, cur, pages, pc>>
    BY <1>11, WritesOwn
  <2>3. files' = files \/ \E c : PutFile(j, c)
    BY <1>11, WritesOwn
  <2>4. j.session = cur /\ cur \in Sessions /\ j.page \in PageNos
    BY <1>3, <1>11 DEF PendingIsCurrent, Job
  <2>5. j.page <= Len(pages) /\ j.page \in Nat /\ j.page >= 1
    BY <1>1, <2>4 DEF Wri, PageNos
  <2>6. j.page \in rowPages[cur]
    BY <1>3, <2>4, <2>5 DEF NumberInv, None, Sessions
  <2>7. \A s \in Sessions : \A p \in PageNos :
            s # j.session \/ p # j.page => files'[s][p] = files[s][p]
    BY <1>3, <2>3, <2>4 DEF PutFile
  <2>8. Rec'
    BY <1>1, <2>2, <2>4, <2>6, <2>7 DEF Rec
  <2>9. App'
    <3>1. pc = "append" => NextPage \in PageNos
      BY <1>3 DEF PageInv, PageNos
    <3>2. NextPage # j.page
      BY <1>3, <2>5
    <3> QED
      BY <1>1, <2>2, <2>4, <2>7, <3>1, <3>2 DEF App, NextPage
  <2>10. Wri'
    <3>1. \A k \in jobs : k # j => k.page # j.page /\ k.session \in Sessions /\ k.page \in PageNos
      BY <1>1, <1>3 DEF One, Job
    <3>2. a.stage = "write" => files'[a.session][a.page] = Torn
      BY <1>3, <2>1, <2>4 DEF BeginWriting, PutFile
    <3> QED
      BY <1>1, <2>1, <2>2, <2>5, <2>7, <3>1, <3>2 DEF Wri
  <2>11. One'
    BY <1>1, <2>1 DEF One
  <2> QED
    BY <2>8, <2>9, <2>10, <2>11
<1>12. ASSUME NEW s \in Sessions, RecoverSession(s)
       PROVE  Rec' /\ App' /\ Wri' /\ One'
  <2>1. /\ cur = None /\ jobs' = jobs /\ pc' = "ready"
        /\ UNCHANGED <<rowPages, files>>
    BY <1>3, <1>12, Recovered
  <2> QED
    BY <1>1, <1>3, <2>1 DEF Rec, App, Wri, One
<1> QED
  BY <1>3, <1>4, <1>5, <1>6, <1>7, <1>8, <1>9, <1>10, <1>11, <1>12, ShapeStep

\* An image was acquired and is not acknowledged yet.
InHand == {"add-page", "append"}

\* No image is acquired, acknowledged or converted.
SameImages ==
    /\ UNCHANGED <<taken, scans, converted>>
    /\ pc' \in InHand => pc \in InHand
    /\ \A k \in jobs' : \E j \in jobs :
           /\ k.session = j.session /\ k.image = j.image
           /\ k.stage \in Converting => j.stage \in Converting

\* Images are acquired, acknowledged and converted by three steps.
LEMMA SameImagesStep ==
  ASSUME jobs \subseteq Job, Next, ~AcquireImage, ~AppendPage,
         \A j \in jobs : ~Convert(j)
  PROVE  SameImages
<1> USE DEF SameImages, InHand, rowVars, diskVars, memoryVars, jobVars, history, Goto,
            Return
<1>1. ASSUME NEW a \in Commands, Do(a) PROVE SameImages
  BY <1>1 DEF Do, EntryPoint
<1>2. ASSUME ScanStep PROVE SameImages
  BY <1>2
     DEF ScanStep, Scan, CreateSession, CreateSessionFails, MakeWorkDir, MakeWorkDirFails,
         BeginScan, AcquireImageFails, ScanFailed, AddPage, AddPageFails, RefreshPage
<1>3. ASSUME FinishStep PROVE SameImages
  BY <1>3
     DEF FinishStep, FinishNothing, FinishBegin, Merge, MergeFails, FailSession,
         SaveSession, UploadSucceeds, UploadFails, UploadUnrecorded, Upload, CloseSaved,
         DiscardBegin, DiscardSession, CloseDiscarded, ClearSession
<1>4. ASSUME NEW j \in jobs, Process(j) PROVE SameImages
  <2>1. UNCHANGED <<taken, scans, converted, pc>>
    BY <1>4
       DEF Process, BeginWriting, ConvertFails, ReportProcessed, ReportBroken, CountDown,
           Release
  <2>2. CASE jobs' = jobs \ {j}
    BY <2>1, <2>2
  <2>3. ASSUME NEW st, Advance(j, st), st \in Converting => j.stage \in Converting
        PROVE  SameImages
    <3> DEFINE b == [j EXCEPT !.stage = st]
    <3>1. b.session = j.session /\ b.image = j.image /\ b.stage = st
      BY DEF Job
    <3>2. jobs' = (jobs \ {j}) \cup {b}
      BY <2>3 DEF Advance
    <3> HIDE DEF b
    <3> QED
      BY <2>1, <2>3, <3>1, <3>2
  <2> QED
    BY <1>4, <2>2, <2>3
       DEF Process, BeginWriting, ConvertFails, ReportProcessed, ReportBroken, CountDown,
           Release, Converting
<1>5. ASSUME Crash PROVE SameImages
  BY <1>5 DEF Crash
<1>6. ASSUME Restart PROVE SameImages
  BY <1>6
     DEF Restart, RestartIdle, RecoverSession, RecoverWithoutPages, Resume, MarkLost
<1> QED
  BY <1>1, <1>2, <1>3, <1>4, <1>5, <1>6 DEF Next

\* No image becomes two pages.
LEMMA ImageStep ==
  ASSUME IInv, ImageInv, Next
  PROVE  ImageInv'
<1> DEFINE Once == \A s \in Sessions : \A i \in 1..Len(taken[s]) :
                       /\ taken[s][i] <= scans
                       /\ pc \in InHand => taken[s][i] < scans
                       /\ \A t \in Sessions : \A k \in 1..Len(taken[t]) :
                              taken[s][i] = taken[t][k] => s = t /\ i = k
           Known == \A j \in jobs : \E i \in 1..Len(taken[j.session]) :
                        j.image = taken[j.session][i]
           Fresh == \A j \in jobs : j.stage \in Converting => j.image \notin converted
           Done == \A k \in converted :
                       k <= scans /\ (pc \in InHand => k < scans)
<1>1. Once /\ Known /\ Fresh /\ Done
  BY DEF ImageInv, InHand
<1>2. SUFFICES Once' /\ Known' /\ Fresh' /\ Done'
  BY DEF ImageInv, InHand
<1>3. /\ cur \in Sessions \cup {None} /\ jobs \subseteq Job /\ ControlInv
      /\ taken \in [Sessions -> Seq(Images)] /\ HistoryTypes
  BY Typed
<1>4. scans \in Nat /\ converted \subseteq Nat
  BY <1>3, BoundsAssumption DEF HistoryTypes, Images
<1>5. \A s \in Sessions : /\ Len(taken[s]) \in Nat
                          /\ \A i \in 1..Len(taken[s]) : taken[s][i] \in Nat
  <2> SUFFICES ASSUME NEW s \in Sessions
               PROVE  /\ Len(taken[s]) \in Nat
                      /\ \A i \in 1..Len(taken[s]) : taken[s][i] \in Nat
    OBVIOUS
  <2>1. taken[s] \in Seq(Images)
    BY <1>3
  <2>2. Images \subseteq Nat
    BY DEF Images
  <2>3. Len(taken[s]) \in Nat
    BY <2>1
  <2>4. \A i \in 1..Len(taken[s]) : taken[s][i] \in Images
    BY <2>1
  <2> QED
    BY <2>2, <2>3, <2>4
<1> HIDE DEF Once, Known, Fresh, Done
<1>6. CASE SameImages
  <2>1. Once' /\ Done'
    BY <1>1, <1>6 DEF SameImages, Once, Done
  <2>2. Known' /\ Fresh'
    BY <1>1, <1>6 DEF SameImages, Known, Fresh
  <2> QED
    BY <2>1, <2>2
<1>7. CASE AcquireImage
  <2>1. scans' = scans + 1 /\ UNCHANGED <<taken, converted, jobs>>
    BY <1>7 DEF AcquireImage, jobVars, history
  <2>2. Known' /\ Fresh'
    BY <1>1, <2>1 DEF Known, Fresh
  <2>3. Once'
    <3>1. \A k \in Nat : k <= scans => k <= scans' /\ k < scans'
      BY <1>4, <2>1
    <3> QED
      BY <1>1, <1>5, <2>1, <3>1 DEF Once
  <2>4. Done'
    BY <1>1, <1>4, <2>1 DEF Done
  <2> QED
    BY <2>2, <2>3, <2>4
<1>8. CASE AppendPage
  <2> DEFINE n == [session |-> cur, page |-> NextPage, image |-> scans, stage |-> "convert"]
  <2>1. /\ pc = "append" /\ pc' = "refresh" /\ UNCHANGED <<converted, scans>>
        /\ jobs' = jobs \cup {n}
        /\ taken' = [taken EXCEPT ![cur] = Append(@, scans)]
    BY <1>8 DEF AppendPage, Goto
  <2>2. cur \in Sessions
    BY <1>3, <2>1 DEF ControlInv, HeldPoints
  <2>3. n.session = cur /\ n.image = scans
    OBVIOUS
  <2> HIDE DEF n
  <2>4. \A s \in Sessions : s # cur => taken'[s] = taken[s]
    BY <1>3, <2>1
  <2>5. /\ taken'[cur] = Append(taken[cur], scans) /\ taken[cur] \in Seq(Images)
    BY <1>3, <2>1, <2>2
  <2>6. /\ Len(taken'[cur]) = Len(taken[cur]) + 1
        /\ taken'[cur][Len(taken[cur]) + 1] = scans
        /\ \A i \in 1..Len(taken[cur]) : taken'[cur][i] = taken[cur][i]
    BY <2>5
  <2>7. ASSUME NEW s \in Sessions, NEW i \in 1..Len(taken'[s])
        PROVE  \/ i \in 1..Len(taken[s]) /\ taken'[s][i] = taken[s][i]
               \/ s = cur /\ i = Len(taken[cur]) + 1 /\ taken'[s][i] = scans
    <3>1. CASE s # cur
      BY <2>4, <2>7, <3>1
    <3>2. CASE s = cur
      <4>1. i \in 1..Len(taken[s]) \/ i = Len(taken[s]) + 1
        BY <1>5, <2>2, <2>6, <2>7, <3>2
      <4> QED
        BY <2>6, <3>2, <4>1
    <3> QED
      BY <3>1, <3>2
  <2>8. \A s \in Sessions : \A i \in 1..Len(taken[s]) : taken[s][i] < scans
    BY <1>1, <2>1 DEF Once, InHand
  <2>9. \A s \in Sessions : \A i \in 1..Len(taken[s]) : taken[s][i] # scans
    BY <1>4, <1>5, <2>8
  <2>10. Once'
    <3>1. ASSUME NEW s \in Sessions, NEW i \in 1..Len(taken'[s])
          PROVE  taken'[s][i] <= scans
      BY <1>1, <1>4, <2>7 DEF Once
    <3>2. ASSUME NEW s \in Sessions, NEW i \in 1..Len(taken'[s]),
                 NEW t \in Sessions, NEW k \in 1..Len(taken'[t]),
                 taken'[s][i] = taken'[t][k]
          PROVE  s = t /\ i = k
      <4>1. \/ i \in 1..Len(taken[s]) /\ taken'[s][i] = taken[s][i]
            \/ s = cur /\ i = Len(taken[cur]) + 1 /\ taken'[s][i] = scans
        BY <2>7
      <4>2. \/ k \in 1..Len(taken[t]) /\ taken'[t][k] = taken[t][k]
            \/ t = cur /\ k = Len(taken[cur]) + 1 /\ taken'[t][k] = scans
        BY <2>7
      <4> QED
        BY <1>1, <2>9, <3>2, <4>1, <4>2 DEF Once
    <3> QED
      BY <2>1, <3>1, <3>2 DEF Once, InHand
  <2>11. Known'
    <3> SUFFICES ASSUME NEW j \in jobs'
                 PROVE  \E i \in 1..Len(taken'[j.session]) : j.image = taken'[j.session][i]
      BY DEF Known
    <3>1. CASE j = n
      <4>1. Len(taken[cur]) + 1 \in 1..Len(taken'[cur])
        BY <1>5, <2>2, <2>6
      <4> QED
        BY <2>3, <2>6, <3>1, <4>1
    <3>2. CASE j \in jobs
      <4>1. PICK i \in 1..Len(taken[j.session]) : j.image = taken[j.session][i]
        BY <1>1, <3>2 DEF Known
      <4>2. j.session \in Sessions
        BY <1>3, <3>2 DEF Job
      <4>3. i \in 1..Len(taken'[j.session]) /\ taken'[j.session][i] = taken[j.session][i]
        BY <1>5, <2>4, <2>6, <4>1, <4>2
      <4> QED
        BY <4>1, <4>3
    <3> QED
      BY <2>1, <3>1, <3>2
  <2>12. Done'
    BY <1>1, <2>1 DEF Done, InHand
  <2>13. Fresh'
    <3>1. scans \notin converted
      BY <1>1, <1>4, <2>1 DEF Done, InHand
    <3> QED
      BY <1>1, <2>1, <2>3, <3>1 DEF Fresh
  <2> QED
    BY <2>10, <2>11, <2>12, <2>13
<1>9. ASSUME NEW j \in jobs, Convert(j) PROVE Once' /\ Known' /\ Fresh' /\ Done'
  <2>1. /\ UNCHANGED <<taken, scans, pc>> /\ converted' = converted \cup {j.image}
        /\ j.stage = "write"
    BY <1>9 DEF Convert
  <2>2. PICK a : /\ jobs' \subseteq (jobs \ {j}) \cup {a} /\ a.stage # "convert"
                 /\ a.session = j.session /\ a.image = j.image
                 /\ a.stage = "write" => BeginWriting(j)
    BY <1>3, <1>9, MovesOn DEF Goes
  <2>3. PICK i \in 1..Len(taken[j.session]) : j.image = taken[j.session][i]
    BY <1>1, <1>9 DEF Known
  <2>4. j.session \in Sessions
    BY <1>3, <1>9 DEF Job
  <2>5. j.image <= scans /\ (pc \in InHand => j.image < scans)
    BY <1>1, <2>3, <2>4 DEF Once
  <2>6. Once' /\ Done'
    BY <1>1, <2>1, <2>5 DEF Once, Done
  <2>7. Known'
    BY <1>1, <1>9, <2>1, <2>2 DEF Known
  <2>8. Fresh'
    <3>1. a.stage \notin Converting
      BY <2>1, <2>2 DEF BeginWriting, Converting
    <3>2. \A k \in jobs : k # j => k.image # j.image
      BY Typed DEF JobInv
    <3> QED
      BY <1>1, <2>1, <2>2, <3>1, <3>2 DEF Fresh
  <2> QED
    BY <2>6, <2>7, <2>8
<1> QED
  BY <1>3, <1>6, <1>7, <1>8, <1>9, SameImagesStep

\* So it is in stuttering steps.
LEMMA ImageKept ==
  ASSUME IInv, ImageInv, [Next]_vars
  PROVE  ImageInv'
<1>1. CASE UNCHANGED vars
  BY <1>1 DEF ImageInv, vars, jobVars, history
<1> QED
  BY <1>1, ImageStep

\* Only a stop takes the process down, and it is counted.
LEMMA StopsAreCounted ==
  ASSUME Next
  PROVE  \/ Crash
         \/ crashes' = crashes /\ (pc' = "down" => pc = "down")
<1> USE DEF Goto, Return
<1>1. ASSUME NEW a \in Commands, Do(a) PROVE pc' # "down" /\ crashes' = crashes
  BY <1>1 DEF Do, EntryPoint
<1>2. ASSUME ScanStep PROVE pc' # "down" /\ crashes' = crashes
  BY <1>2
     DEF ScanStep, Scan, CreateSession, CreateSessionFails, MakeWorkDir,
         MakeWorkDirFails, BeginScan, AcquireImage, AcquireImageFails, ScanFailed, AddPage,
         AddPageFails, AppendPage, RefreshPage
<1>3. ASSUME FinishStep PROVE pc' # "down" /\ crashes' = crashes
  BY <1>3
     DEF FinishStep, FinishNothing, FinishBegin, Merge, MergeFails, FailSession,
         SaveSession, UploadSucceeds, UploadFails, UploadUnrecorded, Upload,
         CloseSaved, DiscardBegin, DiscardSession, CloseDiscarded
<1>4. ASSUME NEW j \in jobs, Process(j) PROVE pc' = pc /\ crashes' = crashes
  BY <1>4
     DEF Process, BeginWriting, Convert, ConvertFails, ReportProcessed, ReportBroken,
         CountDown, Release
<1>5. ASSUME Restart PROVE pc' # "down" /\ crashes' = crashes
  BY <1>5
     DEF Restart, RestartIdle, RecoverSession, RecoverWithoutPages, Resume, MarkLost
<1> QED
  BY <1>1, <1>2, <1>3, <1>4, <1>5 DEF Next

\* Equal intervals end at the same number.
LEMMA SameLength ==
  ASSUME NEW m \in Nat, NEW n \in Nat, 1..m = 1..n
  PROVE  m = n
<1>1. m = 0 \/ m \in 1..m
  OBVIOUS
<1>2. n = 0 \/ n \in 1..n
  OBVIOUS
<1>3. (m = 0 \/ m \in 1..n) /\ (n = 0 \/ n \in 1..m)
  BY <1>1, <1>2
<1> QED
  BY <1>3

\* A session keeps all its pages in the right files, or stays one page short.
LEMMA AlignStep ==
  ASSUME RecordingWorks, IInv, NumberInv, SlotInv, AlignInv, ImageInv, Next
  PROVE  AlignInv'
<1>1. /\ SlotTypes /\ ControlInv /\ JobInv /\ PageInv /\ FreshInv
      /\ Len(pages) \in Nat /\ NextPage = Len(pages) + 1
      /\ cur \in Sessions \cup {None} /\ jobs \subseteq Job
      /\ MaxScans \in Nat /\ scans \in 0..MaxScans
      /\ rowPages \in [Sessions -> SUBSET PageNos]
      /\ taken \in [Sessions -> Seq(Images)]
      /\ files \in [Sessions -> [PageNos -> Contents]]
      /\ (cur = None => jobs = {}) /\ PendingIsCurrent
      /\ DatabaseTypes /\ DiskTypes
  BY Typed
<1>2. cur # None =>
          rowPages[cur] = 1..(IF pc = "append" THEN Len(pages) + 1 ELSE Len(pages))
  BY <1>1 DEF NumberInv
<1>3. SUFFICES ASSUME NEW s \in Sessions PROVE Whole(s)' \/ Holed(s)'
  BY DEF AlignInv
<1>4. Whole(s) \/ Holed(s)
  BY DEF AlignInv
<1>5. s # None /\ Len(taken[s]) \in Nat
  BY <1>1 DEF Sessions, None
<1>6. s = cur /\ Whole(s) => Len(taken[s]) = Len(pages)
  <2> SUFFICES ASSUME s = cur, Whole(s) PROVE Len(taken[s]) = Len(pages)
    OBVIOUS
  <2>1. rowPages[s] = 1..(IF pc = "append" THEN Len(taken[s]) + 1 ELSE Len(taken[s]))
    BY DEF Whole
  <2>2. CASE pc = "append"
    <3>1. Len(taken[s]) + 1 \in Nat /\ Len(pages) + 1 \in Nat
      BY <1>1, <1>5
    <3>2. Len(taken[s]) + 1 = Len(pages) + 1
      BY <1>2, <1>5, <2>1, <2>2, <3>1, SameLength
    <3> QED
      BY <1>1, <1>5, <3>2
  <2>3. CASE pc # "append"
    BY <1>1, <1>2, <1>5, <2>1, <2>3, SameLength
  <2> QED
    BY <2>2, <2>3
<1>7. CASE Stay
  BY <1>4, <1>7 DEF Stay, pageVars, Whole, Holed
<1>8. CASE Close
  <2>1. /\ jobs = {} /\ jobs' = {} /\ pc # "append" /\ pc' # "append" /\ cur' = None
        /\ rowPages' = rowPages /\ taken' = taken /\ converted' = converted
    BY <1>1, <1>8 DEF Close, JobInv, EndPoints
  <2>2. files' = files \/ files' = [files EXCEPT ![cur] = NoFiles]
    BY <1>8 DEF Close
  <2>3. \A i \in PageNos : files'[s][i] \in {Absent, files[s][i]}
    BY <1>1, <2>2 DEF NoFiles
  <2>4. CASE Whole(s)
    <3>1. rowPages[s] = 1..Len(taken[s]) /\ rowPages[s] \subseteq PageNos
      BY <1>1, <2>1, <2>4 DEF Whole
    <3>2. \A i \in 1..Len(taken[s]) :
              /\ files'[s][i] \in {Absent, Torn, taken[s][i]}
              /\ files'[s][i] = Torn => taken[s][i] \notin converted
      BY <2>3, <2>4, <3>1, BoundsAssumption DEF Whole, Absent, Torn
    <3> QED
      BY <1>5, <2>1, <3>1, <3>2 DEF Whole
  <2>5. CASE Holed(s)
    <3>1. PICK i \in rowPages[s] : files[s][i] = Absent
      BY <2>5 DEF Holed
    <3>2. i \in PageNos
      BY <1>1, <3>1
    <3> QED
      BY <1>5, <2>1, <2>3, <3>1, <3>2 DEF Holed
  <2> QED
    BY <1>4, <2>4, <2>5
<1>9. CASE Lose
  <2>1. /\ jobs' = {} /\ pc' = "down" /\ cur' = None
        /\ UNCHANGED <<rowPages, taken, files, converted>>
    BY <1>9 DEF Lose
  <2>2. CASE Holed(s)
    BY <1>5, <2>1, <2>2 DEF Holed
  <2>3. CASE Whole(s) /\ s = cur /\ pc = "append"
    <3>1. NextPage \in rowPages[s] /\ files[s][NextPage] = Absent
      BY <1>1, <1>2, <1>5, <2>3 DEF SlotInv
    <3> QED
      BY <1>5, <2>1, <3>1 DEF Holed
  <2>4. CASE Whole(s) /\ ~(s = cur /\ pc = "append")
    BY <1>5, <2>1, <2>4 DEF Whole
  <2> QED
    BY <1>4, <2>2, <2>3, <2>4
<1>10. CASE CreateSession
  <2>1. /\ cur = None /\ cur' = None
        /\ UNCHANGED <<rowPages, taken, files, jobs, converted>>
    BY <1>1, <1>10
       DEF CreateSession, memoryVars, history, diskVars, jobVars, ControlInv
  <2> QED
    BY <1>4, <1>5, <2>1 DEF Whole, Holed
<1>11. CASE MakeWorkDir
  <2>1. /\ cur = None /\ cur' = lastId /\ pc = "mkdir" /\ pc' = "begin"
        /\ UNCHANGED <<rowPages, taken, files, jobs, converted>>
    BY <1>1, <1>11 DEF MakeWorkDir, Goto, rowVars, history, jobVars, ControlInv
  <2>2. CASE s = lastId
    <3>1. rowPages[s] = {} /\ taken[s] = << >>
      BY <2>1, <2>2 DEF NumberInv
    <3> QED
      BY <1>1, <2>1, <3>1 DEF Whole
  <2>3. CASE s # lastId
    BY <1>4, <1>5, <2>1, <2>3 DEF Whole, Holed
  <2> QED
    BY <2>2, <2>3
<1>12. CASE AddPage
  <2>1. /\ pc = "add-page" /\ pc' = "append"
        /\ UNCHANGED <<cur, pages, files, taken, jobs, converted>>
        /\ rowPages' = [rowPages EXCEPT ![cur] = @ \cup {NextPage}]
    BY <1>12 DEF AddPage, Goto, memoryVars, diskVars, jobVars, history
  <2>2. CASE s # cur
    BY <1>1, <1>4, <2>1, <2>2 DEF Whole, Holed
  <2>3. CASE s = cur /\ Whole(s)
    <3>1. rowPages[s] = 1..Len(taken[s]) /\ NextPage = Len(taken[s]) + 1
      BY <1>1, <1>6, <2>1, <2>3 DEF Whole
    <3>2. rowPages'[s] = 1..(Len(taken[s]) + 1)
      BY <1>1, <1>5, <2>1, <2>3, <3>1
    <3> QED
      BY <2>1, <2>3, <3>2 DEF Whole
  <2>4. CASE s = cur /\ Holed(s)
    <3>1. rowPages[s] \subseteq rowPages'[s]
      BY <1>1, <2>1
    <3> QED
      BY <2>1, <2>4, <3>1 DEF Holed
  <2> QED
    BY <1>4, <2>2, <2>3, <2>4
<1>13. CASE AppendPage
  <2> DEFINE n == [session |-> cur, page |-> NextPage, image |-> scans, stage |-> "convert"]
  <2>1. /\ pc = "append" /\ pc' = "refresh" /\ UNCHANGED <<cur, rowPages, files, converted>>
        /\ pages' = Append(pages, NextPage) /\ jobs' = jobs \cup {n}
        /\ taken' = [taken EXCEPT ![cur] = Append(@, scans)]
    BY <1>13 DEF AppendPage, Goto, rowVars, diskVars
  <2>2. Len(pages') = NextPage
    BY <1>1, <2>1 DEF SlotTypes
  <2>3. n.session = cur /\ n.page = NextPage /\ n.image = scans
    OBVIOUS
  <2> HIDE DEF n
  <2>4. CASE s # cur
    <3>1. taken'[s] = taken[s]
      BY <1>1, <2>1, <2>4
    <3> QED
      BY <1>4, <2>1, <2>3, <2>4, <3>1 DEF Whole, Holed
  <2>5. CASE s = cur /\ Whole(s)
    <3>1. /\ taken'[s] = Append(taken[s], scans) /\ Len(taken[s]) = Len(pages)
          /\ taken[s] \in Seq(Images)
      BY <1>1, <1>6, <2>1, <2>5
    <3>2. /\ Len(taken'[s]) = NextPage /\ taken'[s][NextPage] = scans
          /\ \A i \in 1..Len(taken[s]) : taken'[s][i] = taken[s][i]
      BY <1>1, <3>1
    <3>3. rowPages'[s] = 1..Len(taken'[s])
      BY <1>1, <2>1, <2>5, <3>1, <3>2 DEF Whole
    <3>4. files[s][NextPage] = Absent
      BY <2>1, <2>5 DEF SlotInv
    <3>5. ASSUME NEW i \in 1..Len(taken'[s])
          PROVE  /\ files'[s][i] \in {Absent, Torn, taken'[s][i]}
                 /\ files'[s][i] = Torn => taken'[s][i] \notin converted
      <4>0. Absent # Torn
        BY BoundsAssumption DEF Absent, Torn
      <4>1. i \in 1..Len(taken[s]) \/ i = NextPage
        BY <1>1, <3>1, <3>2, <3>5
      <4> QED
        BY <2>1, <2>5, <3>2, <3>4, <4>0, <4>1 DEF Whole
    <3>6. ASSUME NEW j \in jobs', j.session = s
          PROVE  j.page \in 1..Len(taken'[s]) /\ j.image = taken'[s][j.page]
      <4>1. CASE j = n
        BY <1>1, <2>3, <3>2, <4>1
      <4>2. CASE j \in jobs
        <5>1. j.page \in 1..Len(taken[s]) /\ j.image = taken[s][j.page]
          BY <2>5, <3>6, <4>2 DEF Whole
        <5> QED
          BY <1>1, <3>1, <3>2, <5>1
      <4> QED
        BY <2>1, <4>1, <4>2
    <3> QED
      BY <2>1, <3>3, <3>5, <3>6 DEF Whole
  <2>6. CASE s = cur /\ Holed(s)
    <3>1. PICK i \in rowPages[s] : /\ files[s][i] = Absent /\ i <= Len(pages)
                                   /\ \A j \in jobs : j.page = i => j.stage \notin Converting
      BY <2>6 DEF Holed
    <3>2. i \in Nat
      BY <1>1, <3>1 DEF PageNos
    <3>3. i <= NextPage /\ i # NextPage
      BY <1>1, <3>1, <3>2
    <3> QED
      BY <2>1, <2>2, <2>3, <2>6, <3>1, <3>3 DEF Holed
  <2> QED
    BY <1>4, <2>4, <2>5, <2>6
<1>14. ASSUME NEW j \in jobs, Goes(j) PROVE Whole(s)' \/ Holed(s)'
  <2>1. PICK a : /\ jobs' \subseteq (jobs \ {j}) \cup {a} /\ a.stage # "convert"
                 /\ a.session = j.session /\ a.page = j.page /\ a.image = j.image
                 /\ a.stage = "write" => BeginWriting(j)
    BY <1>1, <1>14, MovesOn
  <2>2. UNCHANGED <<rowPages, taken, cur, pages, pc>>
    BY <1>14, WritesOwn
  <2>3. \/ files' = files
        \/ /\ j.stage \in Converting
           /\ \E c \in {Absent, Torn, j.image} : PutFile(j, c)
    BY <1>14, WritesOwn
  <2>4. \/ converted' = converted
        \/ converted' = converted \cup {j.image} /\ PutFile(j, j.image)
    BY <1>14, WritesOwn
  <2>5. /\ j.session = cur /\ cur \in Sessions /\ j.page \in PageNos /\ j.image \in Images
        /\ j.image # Torn
    BY <1>1, <1>14, BoundsAssumption DEF PendingIsCurrent, Job, Images, Torn
  <2>6. \A i \in PageNos :
            \/ files'[s][i] = files[s][i]
            \/ s = j.session /\ i = j.page /\ files'[s][i] \in {Absent, Torn, j.image}
    BY <1>1, <2>3, <2>5 DEF PutFile
  <2>7. CASE Whole(s)
    <3>1. ASSUME NEW i \in 1..Len(taken[s])
          PROVE  /\ files'[s][i] \in {Absent, Torn, taken[s][i]}
                 /\ files'[s][i] = Torn => taken[s][i] \notin converted'
      <4>1. s = j.session /\ i = j.page => j.image = taken[s][i]
        BY <1>14, <2>7 DEF Whole
      <4>2. i \in PageNos
        <5>1. i \in rowPages[s]
          BY <1>5, <2>7, <3>1 DEF Whole
        <5> QED
          BY <1>1, <5>1
      <4>3. files'[s][i] \in {Absent, Torn, taken[s][i]}
        BY <2>6, <2>7, <4>1, <4>2 DEF Whole
      <4>4. ASSUME files'[s][i] = Torn PROVE taken[s][i] \notin converted
        <5>1. CASE files[s][i] = Torn
          BY <2>7, <5>1 DEF Whole
        <5>2. CASE files[s][i] # Torn
          <6>1. files' # files /\ s = j.session /\ i = j.page
            BY <2>6, <4>2, <4>4, <5>2
          <6>2. j.stage \in Converting /\ j.image = taken[s][i]
            BY <2>3, <4>1, <6>1
          <6> QED
            BY <6>2 DEF ImageInv
        <5> QED
          BY <5>1, <5>2
      <4>5. ASSUME files'[s][i] = Torn, PutFile(j, j.image) PROVE taken[s][i] # j.image
        <5>1. files'[j.session][j.page] = j.image
          BY <1>1, <2>5, <4>5 DEF PutFile
        <5>2. ~(s = j.session /\ i = j.page)
          BY <2>5, <4>5, <5>1
        <5>3. PICK m \in 1..Len(taken[j.session]) : j.image = taken[j.session][m]
          BY <1>14 DEF ImageInv
        <5>4. taken[s][i] = j.image => s = j.session /\ i = m
          BY <2>5, <5>3 DEF ImageInv
        <5>5. s = j.session => j.page \in 1..Len(taken[s]) /\ j.image = taken[s][j.page]
          BY <1>14, <2>7 DEF Whole
        <5> QED
          BY <5>2, <5>3, <5>4, <5>5 DEF ImageInv
      <4> QED
        BY <2>4, <4>3, <4>4, <4>5
    <3>2. \A k \in jobs' : k.session = s => k.page \in 1..Len(taken[s]) /\ k.image = taken[s][k.page]
      BY <2>1, <2>7 DEF Whole
    <3> QED
      BY <2>2, <2>7, <3>1, <3>2 DEF Whole
  <2>8. CASE Holed(s)
    <3>1. PICK i \in rowPages[s] :
              /\ files[s][i] = Absent
              /\ s = cur => /\ i <= Len(pages)
                            /\ \A k \in jobs : k.page = i => k.stage \notin Converting
      BY <2>8 DEF Holed
    <3>2. i \in PageNos
      BY <1>1, <3>1
    <3>3. files'[s][i] = Absent
      BY <1>1, <2>3, <2>5, <3>1, <3>2 DEF PutFile
    <3>4. s = cur => \A k \in jobs' : k.page = i => k.stage \notin Converting
      BY <2>1, <3>1 DEF BeginWriting, Converting
    <3> QED
      BY <2>2, <3>1, <3>3, <3>4 DEF Holed
  <2> QED
    BY <1>4, <2>7, <2>8
<1>15. ASSUME NEW t \in Sessions, RecoverSession(t) PROVE Whole(s)' \/ Holed(s)'
  <2>1. PICK n \in 0..MaxScans :
            /\ rowPages[t] = 1..n /\ Len(pages') = n
            /\ cur' = t /\ cur = None /\ jobs' = jobs /\ pc = "down"
            /\ pc' = "ready"
            /\ UNCHANGED <<rowPages, taken, files, converted>>
    BY <1>1, <1>15, Recovered
  <2>2. jobs = {}
    BY <1>1, <2>1
  <2>3. CASE Whole(s)
    BY <2>1, <2>2, <2>3 DEF Whole
  <2>4. CASE Holed(s)
    BY <2>1, <2>2, <2>4 DEF Holed
  <2> QED
    BY <1>4, <2>3, <2>4
<1> QED
  BY <1>1, <1>7, <1>8, <1>9, <1>10, <1>11, <1>12, <1>13, <1>14, <1>15, ShapeStep

\* Documents are only added.
DocsKept ==
    \A i \in 1..Len(docs) : i \in 1..Len(docs') /\ docs'[i] = docs[i]

\* No document is ever changed.
LEMMA DocsKeptStep ==
  ASSUME docs \in Seq([session : Sessions, content : Seq(Contents)]), Next
  PROVE  DocsKept
<1>1. docs' = docs \/ \E d : docs' = Append(docs, d)
  <2> USE DEF diskVars
  <2>1. ASSUME NEW a \in Commands, Do(a) PROVE docs' = docs
    BY <2>1 DEF Do
  <2>2. ASSUME ScanStep PROVE docs' = docs
    BY <2>2
       DEF ScanStep, Scan, CreateSession, CreateSessionFails, MakeWorkDir,
           MakeWorkDirFails, BeginScan, AcquireImage, AcquireImageFails, ScanFailed, AddPage,
           AddPageFails, AppendPage, RefreshPage
  <2>3. ASSUME FinishStep, ~Merge PROVE docs' = docs
    BY <2>3
       DEF FinishStep, FinishNothing, FinishBegin, MergeFails, FailSession, SaveSession,
           UploadSucceeds, UploadFails, UploadUnrecorded, Upload, CloseSaved,
           DiscardBegin, DiscardSession, CloseDiscarded
  <2>4. ASSUME NEW j \in jobs, Process(j) PROVE docs' = docs
    BY <2>4 DEF Process, BeginWriting, Convert, ConvertFails, ReportProcessed, ReportBroken,
                CountDown, Release
  <2>5. ASSUME Crash
        PROVE  docs' = docs \/ \E d : docs' = Append(docs, d)
    BY <2>5 DEF Crash
  <2>6. ASSUME Restart PROVE docs' = docs
    BY <2>6
       DEF Restart, RestartIdle, RecoverSession, RecoverWithoutPages, Resume, MarkLost
  <2>7. Merge => \E d : docs' = Append(docs, d)
    BY DEF Merge
  <2> QED
    BY <2>1, <2>2, <2>3, <2>4, <2>5, <2>6, <2>7 DEF Next
<1>2. ASSUME NEW d, docs' = Append(docs, d) PROVE DocsKept
  BY <1>2 DEF DocsKept
<1> QED
  BY <1>1, <1>2 DEF DocsKept

\* Until the first stop a file is torn while it is written, and no longer.
LEMMA TornStep ==
  ASSUME RecordingWorks, IInv, NumberInv, SlotInv, TornInv, Next
  PROVE  TornInv'
<1> DEFINE Down == pc = "down" => crashes > 0
           Writes(p) == \E j \in jobs : j.page = p /\ j.stage = "write"
           Live == cur # None /\ ~abort =>
                      \A p \in PageNos : files[cur][p] = Torn => Writes(p)
<1>1. Down /\ (crashes = 0 => Live)
  BY DEF TornInv
<1>2. /\ SlotTypes /\ ControlInv /\ PendingIsCurrent /\ FreshInv
      /\ cur \in Sessions \cup {None} /\ jobs \subseteq Job
      /\ files \in [Sessions -> [PageNos -> Contents]]
      /\ DatabaseTypes /\ DiskTypes /\ HistoryTypes
  BY Typed
<1>3. crashes \in Nat /\ Absent # Torn
  BY <1>2, BoundsAssumption DEF HistoryTypes, Absent, Torn
<1>4. CASE Crash
  BY <1>3, <1>4 DEF Crash, TornInv
<1>5. CASE ~Crash
  <2>1. crashes' = crashes /\ (pc' = "down" => pc = "down")
    BY <1>5, StopsAreCounted
  <2>2. Down'
    BY <1>1, <2>1
  <2>3. SUFFICES ASSUME crashes = 0 PROVE Live'
    BY <2>1, <2>2 DEF TornInv
  <2>4. Live /\ pc # "down"
    BY <1>1, <2>3
  <2> HIDE DEF Live
  <2>5. CASE Stay
    BY <2>4, <2>5 DEF Stay, pageVars, Live
  <2>6. CASE Close \/ Lose
    BY <2>6 DEF Close, Lose, Live
  <2>7. CASE CreateSession
    BY <1>2, <2>7 DEF CreateSession, memoryVars, ControlInv, Live
  <2>8. CASE MakeWorkDir
    <3>1. pc = "mkdir" /\ cur' = lastId /\ files' = files
      BY <2>8 DEF MakeWorkDir
    <3>2. lastId \in Sessions /\ rowPages[lastId] = {}
      BY <1>2, <3>1 DEF FreshInv, NumberInv
    <3>3. \A p \in PageNos : files[lastId][p] = Absent
      BY <3>2 DEF SlotInv
    <3> QED
      BY <1>3, <3>1, <3>3 DEF Live
  <2>9. CASE AddPage
    BY <2>4, <2>9 DEF AddPage, memoryVars, diskVars, jobVars, Live
  <2>10. CASE AppendPage
    <3>1. UNCHANGED <<cur, files, abort>> /\ jobs \subseteq jobs'
      BY <2>10 DEF AppendPage, diskVars
    <3> QED
      BY <2>4, <3>1 DEF Live
  <2>11. ASSUME NEW j \in jobs, Goes(j) PROVE Live'
    <3>1. PICK a : /\ jobs \ {j} \subseteq jobs' /\ a.page = j.page
                   /\ BeginWriting(j) => a \in jobs' /\ a.stage = "write"
      BY <1>2, <2>11, MovesOn
    <3>2. /\ j.session = cur /\ cur \in Sessions /\ j.page \in PageNos
          /\ j.image # Torn
      BY <1>2, <2>11, BoundsAssumption DEF PendingIsCurrent, Job, Images, Torn
    <3>3. CASE ConvertFails(j)
      BY <3>2, <3>3 DEF ConvertFails, Live
    <3>4. ASSUME BeginWriting(j) \/ Convert(j) PROVE Live'
      <4>1. UNCHANGED <<cur, abort>> /\ \E c : PutFile(j, c)
        BY <3>4 DEF BeginWriting, Convert, memoryVars
      <4>2. \A p \in PageNos : p # j.page => files'[cur][p] = files[cur][p]
        BY <1>2, <3>2, <4>1 DEF PutFile
      <4>3. files'[cur][j.page] = Torn => BeginWriting(j)
        BY <1>2, <3>2, <3>4 DEF Convert, PutFile
      <4> QED
        BY <2>4, <3>1, <4>1, <4>2, <4>3 DEF Live
    <3>5. CASE Pass(j)
      <4>1. j.stage # "write" /\ UNCHANGED <<cur, abort, files>>
        BY <3>5 DEF Pass, pageVars, Converting
      <4> QED
        BY <2>4, <3>1, <4>1 DEF Live
    <3> QED
      BY <2>11, <3>3, <3>4, <3>5 DEF Goes
  <2>12. ASSUME NEW s \in Sessions, RecoverSession(s) PROVE FALSE
    BY <2>4, <2>12 DEF RecoverSession, Resume
  <2> QED
    BY <1>2, <2>5, <2>6, <2>7, <2>8, <2>9, <2>10, <2>11, <2>12, ShapeStep
<1> QED
  BY <1>4, <1>5

\* A step with nothing to say of documents.
Quiet ==
    /\ UNCHANGED <<docs, taken>>
    /\ \A s \in Sessions : rowStatus'[s] = "saved" => rowStatus[s] = "saved"
    /\ pc' \notin {"merge", "record-saved"} \/ UNCHANGED <<pc, cur, pages>>

\* Five steps have to do with documents.
LEMMA QuietStep ==
  ASSUME RowTypes, Next, ~SaveSession, ~Merge, ~FinishBegin, ~AppendPage, ~Crash
  PROVE  Quiet
<1> USE DEF Quiet, rowVars, diskVars, memoryVars, jobVars, history, Goto, Return
<1>1. ASSUME NEW a \in Commands, Do(a) PROVE Quiet
  BY <1>1 DEF Do, EntryPoint
<1>2. CASE CreateSession
  BY <1>2 DEF CreateSession, RowTypes
<1>3. ASSUME ScanStep, ~CreateSession PROVE Quiet
  BY <1>3
     DEF ScanStep, Scan, CreateSessionFails, MakeWorkDir, MakeWorkDirFails, BeginScan,
         AcquireImage, AcquireImageFails, ScanFailed, AddPage, AddPageFails, RefreshPage
<1>4. CASE FailSession
  BY <1>4 DEF FailSession, FinishSession, RowTypes
<1>5. CASE DiscardSession
  BY <1>5 DEF DiscardSession, FinishSession, RowTypes
<1>6. ASSUME FinishStep, ~FailSession, ~DiscardSession PROVE Quiet
  BY <1>6
     DEF FinishStep, FinishNothing, MergeFails, UploadSucceeds, UploadFails,
         UploadUnrecorded, Upload, CloseSaved, DiscardBegin, CloseDiscarded
<1>7. ASSUME NEW j \in jobs, Process(j) PROVE Quiet
  BY <1>7
     DEF Process, BeginWriting, Convert, ConvertFails, ReportProcessed, ReportBroken, CountDown,
              Release
<1>10. ASSUME NEW s \in Sessions, RecoverSession(s) \/ RecoverWithoutPages(s)
       PROVE  Quiet
  BY <1>10 DEF RecoverSession, RecoverWithoutPages, Resume
<1>11. ASSUME NEW s \in Sessions, MarkLost(s) PROVE Quiet
  BY <1>11 DEF MarkLost, FinishSession, RowTypes
<1>12. CASE RestartIdle
  BY <1>12 DEF RestartIdle
<1> QED
  BY <1>1, <1>2, <1>3, <1>4, <1>5, <1>6, <1>7, <1>10, <1>11, <1>12
     DEF Next, Restart, ScanStep, FinishStep

\* What can be merged is what was acknowledged.
LEMMA MergedIsComplete ==
  ASSUME IInv, NumberInv, AlignInv, TornInv, pc = "merge", Mergeable
  PROVE  Complete(Document(cur, PageContents), cur)
<1>1. /\ Len(pages) \in Nat /\ cur \in Sessions /\ jobs = {} /\ crashes \in Nat
      /\ taken \in [Sessions -> Seq(Images)]
      /\ rowPages[cur] = 1..Len(pages) /\ rowPages[cur] \subseteq PageNos
      /\ cur # None /\ ~abort
      /\ \A i \in 1..Len(pages) : pages[i] = i
  <2>1. /\ Len(pages) \in Nat /\ cur \in Sessions \cup {None}
        /\ taken \in [Sessions -> Seq(Images)] /\ ControlInv /\ JobInv
        /\ rowPages \in [Sessions -> SUBSET PageNos] /\ HistoryTypes
    BY Typed
  <2>2. cur # None /\ jobs = {} /\ ~abort
    BY <2>1 DEF ControlInv, HeldPoints, EndPoints, JobInv
  <2>3. crashes \in Nat
    BY <2>1, BoundsAssumption DEF HistoryTypes
  <2> QED
    BY <2>1, <2>2, <2>3 DEF NumberInv
<1>2. \A i \in 1..Len(pages) : PageContents[i] = files[cur][i]
  BY <1>1 DEF PageContents
<1>3. \A i \in 1..Len(pages) :
          files[cur][i] # Absent /\ (Len(pages) > 1 => files[cur][i] # Torn)
  BY <1>2 DEF Mergeable
<1>4. ~Holed(cur)
  BY <1>1, <1>3 DEF Holed
<1>5. Whole(cur)
  BY <1>1, <1>4 DEF AlignInv
<1>6. rowPages[cur] = 1..Len(taken[cur]) /\ Len(taken[cur]) \in Nat
  BY <1>1, <1>5 DEF Whole
<1>7. Len(taken[cur]) = Len(pages)
  BY <1>1, <1>6, SameLength
<1>8. ASSUME NEW i \in 1..Len(pages), files[cur][i] # taken[cur][i]
      PROVE  /\ files[cur][i] = Torn /\ taken[cur][i] \notin converted
             /\ Len(taken[cur]) = 1 /\ crashes > 0
  <2>1. files[cur][i] = Torn /\ taken[cur][i] \notin converted
    BY <1>3, <1>5, <1>7, <1>8 DEF Whole
  <2>2. Len(taken[cur]) = 1
    BY <1>1, <1>3, <1>7, <2>1
  <2>3. crashes > 0
    BY <1>1, <2>1 DEF TornInv
  <2> QED
    BY <2>1, <2>2, <2>3
<1>9. /\ Document(cur, PageContents).session = cur
      /\ Document(cur, PageContents).content = PageContents
  BY DEF Document
<1>10. Len(PageContents) = Len(taken[cur])
  BY <1>1, <1>7 DEF PageContents
<1> QED
  BY <1>2, <1>7, <1>8, <1>9, <1>10 DEF Complete

\* What a complete document is compared with stays.
LEMMA StaysTaken ==
  ASSUME IInv, ImageInv, Next, NEW s \in Sessions,
         rowStatus[s] = "saved" \/ (s = cur /\ pc = "record-saved")
  PROVE  /\ taken'[s] = taken[s] /\ (crashes > 0 => crashes' > 0)
         /\ \A i \in 1..Len(taken[s]) :
                taken[s][i] \notin converted => taken[s][i] \notin converted'
<1>1. /\ ControlInv /\ OpenIsActive /\ JobInv /\ PendingIsCurrent
      /\ cur \in Sessions \cup {None} /\ HistoryTypes
      /\ taken \in [Sessions -> Seq(Images)] /\ jobs \subseteq Job
  BY Typed
<1>2. crashes \in Nat
  BY <1>1, BoundsAssumption DEF HistoryTypes
<1>3. s # cur \/ (jobs = {} /\ pc # "append")
  BY <1>1 DEF OpenIsActive, Sessions, None, JobInv, EndPoints, Closing
<1>4. crashes > 0 => crashes' > 0
  <2>1. crashes' = crashes + 1 \/ crashes' = crashes
    BY StopsAreCounted DEF Crash
  <2> QED
    BY <1>2, <2>1
<1>5. CASE AppendPage
  <2>1. /\ pc = "append" /\ converted' = converted
        /\ taken' = [taken EXCEPT ![cur] = Append(@, scans)]
    BY <1>5 DEF AppendPage
  <2> QED
    BY <1>1, <1>3, <1>4, <2>1
<1>6. ASSUME NEW j \in jobs, Convert(j)
      PROVE  /\ taken'[s] = taken[s]
             /\ \A i \in 1..Len(taken[s]) :
                    taken[s][i] \notin converted => taken[s][i] \notin converted'
  <2>1. taken' = taken /\ converted' = converted \cup {j.image}
    BY <1>6 DEF Convert
  <2>2. PICK m \in 1..Len(taken[j.session]) : j.image = taken[j.session][m]
    BY <1>6 DEF ImageInv
  <2>3. j.session # s /\ j.session \in Sessions
    BY <1>1, <1>3 DEF PendingIsCurrent, Job
  <2> QED
    BY <2>1, <2>2, <2>3 DEF ImageInv
<1>7. CASE AcquireImage
  BY <1>4, <1>7 DEF AcquireImage, history
<1>8. CASE SameImages
  BY <1>4, <1>8 DEF SameImages
<1> QED
  BY <1>1, <1>4, <1>5, <1>6, <1>7, <1>8, SameImagesStep

\* What a saved row names stays what was acknowledged.
LEMMA SavedStep ==
  ASSUME IInv, ImageInv, SavedInv, Next,
         pc = "merge" /\ Mergeable => Complete(Document(cur, PageContents), cur)
  PROVE  SavedInv'
<1> DEFINE Named == \A s \in Sessions :
                        rowStatus[s] = "saved" =>
                            /\ rowOutput[s] \in 1..Len(docs) /\ taken[s] # << >>
                            /\ Complete(docs[rowOutput[s]], s)
           Merging == pc = "merge" => pages # << >>
           Naming == pc = "record-saved" =>
                         /\ docs # << >> /\ taken[cur] # << >>
                         /\ Complete(docs[Len(docs)], cur)
<1>1. Named /\ Merging /\ Naming
  BY DEF SavedInv
<1>2. SUFFICES Named' /\ Merging' /\ Naming'
  BY DEF SavedInv
<1>3. /\ SlotTypes /\ ControlInv /\ OpenIsActive /\ RoomInv /\ FreshInv
      /\ MemoryTypes
      /\ cur \in Sessions \cup {None} /\ DiskTypes
      /\ taken \in [Sessions -> Seq(Images)]
  BY Typed
<1>4. RowTypes /\ Len(docs) \in Nat
  <2>1. DatabaseTypes
    BY Typed
  <2>2. RowTypes
    BY <2>1 DEF RowTypes, DatabaseTypes
  <2>3. Len(docs) \in Nat
    BY <1>3 DEF DiskTypes
  <2> QED
    BY <2>2, <2>3
<1>5. RowsKept /\ DocsKept
  BY <1>3, <1>4, RowsKeptStep, DocsKeptStep DEF DiskTypes
<1> HIDE DEF Named, Merging, Naming
<1>6. ASSUME NEW s \in Sessions, rowStatus[s] = "saved"
      PROVE  /\ rowOutput'[s] \in 1..Len(docs') /\ taken'[s] # << >>
             /\ Complete(docs[rowOutput[s]], s)' /\ docs'[rowOutput'[s]] = docs[rowOutput[s]]
  <2>1. /\ rowOutput[s] \in 1..Len(docs) /\ taken[s] # << >>
        /\ Complete(docs[rowOutput[s]], s)
    BY <1>1, <1>6 DEF Named
  <2>2. rowOutput'[s] = rowOutput[s]
    BY <1>5, <1>6 DEF RowsKept, Terminal
  <2>3. rowOutput'[s] \in 1..Len(docs') /\ docs'[rowOutput'[s]] = docs[rowOutput[s]]
    BY <1>5, <2>1, <2>2 DEF DocsKept
  <2> QED
    BY <1>6, <2>1, <2>2, <2>3, StaysTaken DEF Complete
<1>7. CASE Quiet \/ Crash
  <2>1. \A s \in Sessions : rowStatus'[s] = "saved" => rowStatus[s] = "saved"
    BY <1>7 DEF Quiet, Crash, rowVars
  <2>2. Named'
    BY <1>6, <2>1 DEF Named
  <2>3. CASE pc' \notin {"merge", "record-saved"}
    BY <2>2, <2>3 DEF Merging, Naming
  <2>4. CASE UNCHANGED <<pc, cur, pages, docs>> /\ pc = "record-saved"
    <3>1. cur \in Sessions
      BY <1>3, <2>4 DEF ControlInv, HeldPoints, EndPoints
    <3>2. Naming'
      BY <1>1, <2>4, <3>1, StaysTaken DEF Naming, Complete
    <3> QED
      BY <2>2, <2>4, <3>2 DEF Merging
  <2>5. CASE UNCHANGED <<pc, cur, pages, docs>> /\ pc # "record-saved"
    BY <1>1, <2>2, <2>5 DEF Merging, Naming
  <2> QED
    BY <1>7, <2>3, <2>4, <2>5 DEF Quiet, Crash
<1>8. CASE SaveSession
  <2>1. /\ pc = "record-saved" /\ pc' \notin {"merge", "record-saved"}
        /\ UNCHANGED <<docs, taken, converted, crashes>>
        /\ FinishSession(cur, "saved", Len(docs), "session-saved")
    BY <1>8 DEF SaveSession, Goto, diskVars, history
  <2>2. cur \in Sessions
    BY <1>3, <2>1 DEF ControlInv, HeldPoints, EndPoints
  <2>3. ASSUME NEW s \in Sessions, rowStatus'[s] = "saved"
        PROVE  \/ rowStatus[s] = "saved"
               \/ s = cur /\ rowOutput'[s] = Len(docs)
    BY <1>4, <2>1, <2>2, <2>3 DEF FinishSession, RowTypes
  <2>4. /\ Len(docs) \in 1..Len(docs) /\ taken[cur] # << >>
        /\ Complete(docs[Len(docs)], cur)
    BY <1>1, <1>3, <1>4, <2>1 DEF Naming, DiskTypes
  <2>5. Named'
    BY <1>6, <2>1, <2>3, <2>4 DEF Named, Complete
  <2> QED
    BY <2>1, <2>5 DEF Merging, Naming
<1>9. CASE Merge
  <2>1. /\ pc = "merge" /\ pc' = "record-saved" /\ Mergeable
        /\ UNCHANGED <<rowStatus, rowOutput, taken, cur, pages, converted, crashes>>
        /\ docs' = Append(docs, Document(cur, PageContents))
    BY <1>9 DEF Merge, Goto, rowVars, memoryVars, history
  <2>2. /\ Complete(Document(cur, PageContents), cur) /\ cur \in Sessions
        /\ pages # << >>
    BY <1>1, <1>3, <2>1
       DEF ControlInv, HeldPoints, EndPoints, Merging
  <2> DEFINE d == Document(cur, PageContents)
  <2>3. docs' # << >> /\ docs'[Len(docs')] = d
    <3>1. docs \in Seq([session : Sessions, content : Seq(Contents)])
      BY <1>3 DEF DiskTypes
    <3>2. docs' = Append(docs, d)
      BY <2>1
    <3> HIDE DEF d
    <3>3. Len(docs') = Len(docs) + 1 /\ docs'[Len(docs) + 1] = d
      BY <1>4, <3>1, <3>2
    <3> QED
      BY <1>4, <3>3
  <2>4. taken[cur] # << >>
    <3>1. Len(PageContents) = Len(pages) /\ Len(pages) # 0
      BY <1>3, <2>2 DEF PageContents, SlotTypes
    <3>2. Len(taken[cur]) = Len(PageContents)
      BY <2>2 DEF Complete, Document
    <3> QED
      BY <3>1, <3>2
  <2>5. Complete(docs[Len(docs)], cur)'
    BY <2>1, <2>2, <2>3 DEF Complete
  <2>6. Named'
    BY <1>6, <2>1 DEF Named
  <2> QED
    BY <2>1, <2>3, <2>4, <2>5, <2>6 DEF Merging, Naming
<1>10. CASE FinishBegin
  <2>1. /\ UNCHANGED <<rowStatus, pages>> /\ pc' # "record-saved"
        /\ pc' = "merge" => pages # << >>
    BY <1>10 DEF FinishBegin, Goto, rowVars, memoryVars
  <2> QED
    BY <1>6, <2>1 DEF Named, Merging, Naming
<1>11. CASE AppendPage
  <2>1. pc' = "refresh" /\ rowStatus' = rowStatus
    BY <1>11 DEF AppendPage, Goto, rowVars
  <2> QED
    BY <1>6, <2>1 DEF Named, Merging, Naming
<1> QED
  BY <1>4, <1>7, <1>8, <1>9, <1>10, <1>11, QuietStep

\* With nothing scanned there is nothing to be wrong.
LEMMA InitialDocuments == Init => DocumentInv
<1> SUFFICES ASSUME Init PROVE DocumentInv
  OBVIOUS
<1>1. /\ \A s \in Sessions : rowPages[s] = {} /\ taken[s] = << >> /\ rowStatus[s] = "none"
      /\ \A s \in Sessions : \A p \in PageNos : files[s][p] = Absent
      /\ cur = None /\ jobs = {} /\ pc = "ready"
  BY DEF Init
<1>2. NumberInv
  <2>1. 0 \in 0..MaxScans /\ 1..0 = {}
    BY BoundsAssumption
  <2> QED
    BY <1>1, <2>1 DEF NumberInv
<1>3. SlotInv /\ SavedInv /\ TornInv
  BY <1>1 DEF SlotInv, SavedInv, TornInv
<1>4. AlignInv
  <2> SUFFICES ASSUME NEW s \in Sessions PROVE Whole(s)
    BY DEF AlignInv
  <2>1. Len(taken[s]) = 0 /\ rowPages[s] = {}
    BY <1>1
  <2> QED
    BY <1>1, <2>1 DEF Whole
<1> QED
  BY <1>2, <1>3, <1>4 DEF DocumentInv

\* The five parts together are inductive.
LEMMA DocumentStep ==
  ASSUME RecordingWorks, IInv, ImageInv, DocumentInv, [Next]_vars
  PROVE  DocumentInv'
<1>1. CASE Next
  <2>1. SavedInv'
    BY <1>1, MergedIsComplete, SavedStep DEF DocumentInv
  <2> QED
    BY <1>1, <2>1, NumberStep, FileStep, AlignStep, TornStep DEF DocumentInv
<1>2. CASE UNCHANGED vars
  BY <1>2 DEF DocumentInv, NumberInv, SlotInv, AlignInv, Whole, Holed, TornInv,
              SavedInv, Complete, NextPage, vars, rowVars, diskVars, memoryVars, jobVars, history
<1> QED
  BY <1>1, <1>2

\* At first there is no image and no page.
LEMMA InitialPages == Init => ImageInv /\ KeptInv
<1> SUFFICES ASSUME Init PROVE ImageInv /\ KeptInv
  OBVIOUS
<1>1. /\ \A s \in Sessions : taken[s] = << >>
      /\ jobs = {} /\ converted = {} /\ pc = "ready"
  BY DEF Init
<1>2. \A s \in Sessions : 1..Len(taken[s]) = {}
  BY <1>1
<1> QED
  BY <1>1, <1>2 DEF ImageInv, KeptInv

\* The document of a saved session holds every page acknowledged to the user, in
\* the order of the scans, whatever stops, restarts and failures happened in
\* between (session.go: scan, finish, recover; store.go: SessionPages), if pages
\* are recorded and loaded.  Each is there as a whole, unless the document has one
\* page only, the daemon has been stopped, and its conversion never completed.
THEOREM SavedSessionsAreComplete ==
  ASSUME RecordingWorks
  PROVE  Spec => []SavedIsComplete
<1> DEFINE Inv == IInv /\ ImageInv /\ DocumentInv
<1>1. Init => Inv
  BY InitialInv, InitialDocuments, InitialPages
<1>2. Inv /\ [Next]_vars => Inv'
  BY InvStep, ImageKept, DocumentStep
<1>3. Inv => SavedIsComplete
  BY DEF DocumentInv, SavedInv, SavedIsComplete
<1> QED
  BY <1>1, <1>2, <1>3, PTL DEF Spec

-----------------------------------------------------------------------------
(* Where the pages that images became are kept.                            *)

\* The session is being dropped, and has been saved.
Dropping == {"record-discarded", "remove-discarded"}
Saved    == {"upload", "remove-saved"}

\* How a step may touch files, and lead to where they are removed.
KeepsFiles ==
    /\ dropped \subseteq dropped'
    /\ \/ UNCHANGED <<files, taken, converted>>
       \/ AppendPage
       \/ \E j \in jobs : Convert(j) \/ BeginWriting(j) \/ ConvertFails(j)
       \/ (CloseSaved \/ CloseDiscarded) /\ UNCHANGED <<taken, converted>>
    /\ pc' \in Dropping =>
           FinishBegin \/ DiscardBegin \/ (pc \in Dropping /\ UNCHANGED <<cur, taken>>)
    /\ pc' \in Saved =>
           SaveSession \/ (pc \in Saved /\ UNCHANGED <<cur, rowStatus>>)

\* Files are written by conversions and removed when a session is closed.
LEMMA KeepsFilesStep ==
  ASSUME Next
  PROVE  KeepsFiles
<1> USE DEF KeepsFiles, Dropping, Saved, rowVars, diskVars, memoryVars, jobVars, history,
            Goto, Return
<1>1. ASSUME NEW a \in Commands, Do(a) PROVE KeepsFiles
  BY <1>1 DEF Do, EntryPoint
<1>2. ASSUME ScanStep PROVE KeepsFiles
  BY <1>2
     DEF ScanStep, Scan, CreateSession, CreateSessionFails, MakeWorkDir, MakeWorkDirFails,
         BeginScan, AcquireImage, AcquireImageFails, ScanFailed, AddPage, AddPageFails, AppendPage,
         RefreshPage
<1>3. ASSUME CloseSaved \/ CloseDiscarded PROVE KeepsFiles
  BY <1>3 DEF CloseSaved, CloseDiscarded
<1>4. ASSUME FinishStep, ~CloseSaved, ~CloseDiscarded PROVE KeepsFiles
  BY <1>4
     DEF FinishStep, FinishNothing, FinishBegin, Merge, MergeFails, FailSession,
         SaveSession, UploadSucceeds, UploadFails, UploadUnrecorded, Upload,
         DiscardBegin, DiscardSession
<1>5. ASSUME NEW j \in jobs, Process(j) PROVE KeepsFiles
  <2>1. UNCHANGED <<dropped, pc, cur, taken, rowStatus>>
    BY <1>5
       DEF Process, BeginWriting, Convert, ConvertFails, ReportProcessed, ReportBroken,
           CountDown, Release
  <2>2. \/ UNCHANGED <<files, converted>>
        \/ Convert(j) \/ BeginWriting(j) \/ ConvertFails(j)
    BY <1>5 DEF Process, ReportProcessed, ReportBroken, CountDown, Release
  <2> QED
    BY <2>1, <2>2
<1>6. CASE Crash
  BY <1>6 DEF Crash
<1>8. ASSUME Restart PROVE KeepsFiles
  BY <1>8
     DEF Restart, RestartIdle, RecoverSession, RecoverWithoutPages, Resume, MarkLost
<1> QED
  BY <1>1, <1>2, <1>3, <1>4, <1>5, <1>6, <1>8 DEF Next

\* A directory is removed once a document holds what was in it.
LEMMA KeptStep ==
  ASSUME "finish" \notin Faults, IInv, ImageInv, KeptInv, Next,
         pc = "finish" /\ cur # None /\ pages = << >> => taken[cur] = << >>,
         \A j \in jobs :
             j.stage \in Converting => files[j.session][j.page] \in {Absent, Torn}
  PROVE  KeptInv'
<1> DEFINE Held == \A s \in Sessions : \A i \in 1..Len(taken[s]) :
                       /\ taken[s][i] \in converted
                       /\ s \notin dropped /\ rowStatus[s] # "saved"
                       => InFiles(s, taken[s][i])
           Unwanted == pc \in Dropping => cur \in dropped \/ taken[cur] = << >>
           Ended == pc \in Saved => rowStatus[cur] = "saved"
<1>1. Held /\ Unwanted /\ Ended
  BY DEF KeptInv, Dropping, Saved
<1>2. SUFFICES Held' /\ Unwanted' /\ Ended'
  BY DEF KeptInv, Dropping, Saved
<1>3. /\ SlotTypes /\ ControlInv /\ OpenIsActive /\ RoomInv /\ FreshInv
      /\ MemoryTypes
      /\ cur \in Sessions \cup {None} /\ DiskTypes /\ DatabaseTypes
      /\ PendingIsCurrent
      /\ jobs \subseteq Job /\ HistoryTypes
      /\ taken \in [Sessions -> Seq(Images)]
      /\ files \in [Sessions -> [PageNos -> Contents]]
  BY Typed
<1>4. RowTypes
  BY <1>3 DEF RowTypes, DatabaseTypes
<1>5. RowsKept
  BY <1>3, <1>4, RowsKeptStep
<1>6. KeepsFiles
  BY <1>3, KeepsFilesStep
<1>7. \A s \in Sessions : s \notin dropped' /\ rowStatus'[s] # "saved" =>
                              s \notin dropped /\ rowStatus[s] # "saved"
  BY <1>5, <1>6 DEF KeepsFiles, RowsKept, Terminal
<1> HIDE DEF Held, Unwanted, Ended
<1>8. Unwanted'
  <2>1. CASE FinishBegin /\ pc' \in Dropping
    <3>1. pages = << >> /\ cur # None /\ pc = "finish" /\ UNCHANGED <<cur, taken>>
      BY <2>1 DEF FinishBegin, Goto, Dropping, memoryVars, history
    <3> QED
      BY <3>1 DEF Unwanted
  <2>2. CASE DiscardBegin
    BY <2>2 DEF DiscardBegin, Unwanted, memoryVars
  <2>3. CASE pc \in Dropping /\ UNCHANGED <<cur, taken>>
    BY <1>1, <1>6, <2>3 DEF Unwanted, KeepsFiles
  <2> QED
    BY <1>6, <2>1, <2>2, <2>3 DEF KeepsFiles, Unwanted
<1>9. Ended'
  <2>1. CASE SaveSession
    <3>1. pc = "record-saved" /\ cur' = cur
          /\ FinishSession(cur, "saved", Len(docs), "session-saved")
      BY <2>1 DEF SaveSession, memoryVars
    <3>2. cur \in Sessions
      BY <1>3, <3>1 DEF ControlInv, HeldPoints, EndPoints
    <3> QED
      BY <1>4, <3>1, <3>2 DEF FinishSession, RowTypes, Fault, Ended
  <2>2. CASE pc \in Saved /\ UNCHANGED <<cur, rowStatus>>
    BY <1>1, <2>2 DEF Ended
  <2> QED
    BY <1>6, <2>1, <2>2 DEF KeepsFiles, Ended
<1>10. CASE UNCHANGED <<files, taken, converted>>
  <2>1. Held'
    BY <1>1, <1>7, <1>10 DEF Held, InFiles
  <2> QED
    BY <1>8, <1>9, <2>1
<1>11. CASE AppendPage
  <2>1. /\ pc = "append" /\ UNCHANGED <<files, converted>>
        /\ taken' = [taken EXCEPT ![cur] = Append(@, scans)]
    BY <1>11 DEF AppendPage, diskVars
  <2>2. scans \notin converted
    <3>1. scans \in Nat
      BY <1>3, BoundsAssumption DEF HistoryTypes
    <3> QED
      BY <2>1, <3>1 DEF ImageInv
  <2>3. ASSUME NEW s \in Sessions, NEW i \in 1..Len(taken'[s]), taken'[s][i] \in converted
        PROVE  i \in 1..Len(taken[s]) /\ taken'[s][i] = taken[s][i]
    <3>1. CASE s # cur
      BY <1>3, <2>1, <2>3, <3>1
    <3>2. CASE s = cur
      <4>1. taken'[s] = Append(taken[s], scans) /\ taken[s] \in Seq(Images)
        BY <1>3, <2>1, <3>2
      <4> HIDE <2>3
      <4>2. /\ Len(taken[s]) \in Nat /\ Len(taken'[s]) = Len(taken[s]) + 1
            /\ taken'[s][Len(taken[s]) + 1] = scans
            /\ \A k \in 1..Len(taken[s]) : taken'[s][k] = taken[s][k]
        BY <4>1
      <4>3. i \in 1..Len(taken[s]) \/ i = Len(taken[s]) + 1
        BY <2>3, <4>2
      <4> QED
        BY <2>2, <2>3, <4>2, <4>3
    <3> QED
      BY <3>1, <3>2
  <2>4. Held'
    BY <1>1, <1>7, <2>1, <2>3 DEF Held, InFiles
  <2> QED
    BY <1>8, <1>9, <2>4
<1>12. ASSUME NEW j \in jobs, Convert(j) \/ BeginWriting(j) \/ ConvertFails(j)
       PROVE  Held' /\ Unwanted' /\ Ended'
  <2>1. /\ UNCHANGED <<taken, rowStatus, dropped>> /\ j.stage \in Converting
        /\ UNCHANGED files \/ \E c : PutFile(j, c)
    BY <1>12
       DEF Convert, BeginWriting, ConvertFails, Leaves, Converting, rowVars, history
  <2>2. \/ UNCHANGED converted
        \/ converted' = converted \cup {j.image} /\ PutFile(j, j.image)
    BY <1>12 DEF Convert, BeginWriting, ConvertFails, history
  <2>3. j.session \in Sessions /\ j.page \in PageNos /\ j.image \in Images
    BY <1>3, <1>12 DEF Job
  <2>4. \A k \in Images : k # Absent /\ k # Torn
    BY BoundsAssumption DEF Images, Absent, Torn
  <2>5. ASSUME NEW s \in Sessions, NEW k \in Images, InFiles(s, k)
        PROVE  \E p \in PageNos : files'[s][p] = k
    <3>1. PICK p \in PageNos : files[s][p] = k
      BY <2>5 DEF InFiles
    <3>2. ~(s = j.session /\ p = j.page)
      BY <1>12, <2>1, <2>4, <3>1
    <3>3. files'[s][p] = files[s][p]
      <4>1. ASSUME NEW c, PutFile(j, c) PROVE files'[s][p] = files[s][p]
        BY <1>3, <2>3, <3>2, <4>1 DEF PutFile
      <4> QED
        BY <2>1, <4>1
    <3> QED
      BY <3>1, <3>3
  <2>6. PutFile(j, j.image) => \E p \in PageNos : files'[j.session][p] = j.image
    <3>1. PutFile(j, j.image) => files'[j.session][j.page] = j.image
      BY <1>3, <2>3 DEF PutFile
    <3> QED
      BY <2>3, <3>1
  <2>7. PICK n \in 1..Len(taken[j.session]) : j.image = taken[j.session][n]
    BY <1>12 DEF ImageInv
  <2>8. Held'
    <3> SUFFICES ASSUME NEW s \in Sessions, NEW i \in 1..Len(taken[s]),
                        taken[s][i] \in converted', s \notin dropped,
                        rowStatus[s] # "saved"
                 PROVE  \E p \in PageNos : files'[s][p] = taken[s][i]
      BY <2>1 DEF Held, InFiles
    <3>1. taken[s][i] \in Images
      BY <1>3
    <3>2. CASE taken[s][i] = j.image /\ PutFile(j, j.image)
      <4>1. s = j.session
        BY <2>3, <2>7, <3>2 DEF ImageInv
      <4> QED
        BY <2>6, <3>2, <4>1
    <3>3. CASE taken[s][i] \in converted
      BY <1>1, <2>5, <3>1, <3>3 DEF Held
    <3> QED
      BY <2>2, <3>2, <3>3
  <2> QED
    BY <1>8, <1>9, <2>8
<1>13. CASE (CloseSaved \/ CloseDiscarded) /\ UNCHANGED <<taken, converted>>
  <2>1. /\ pc \in Dropping \cup Saved /\ rowStatus' = rowStatus /\ dropped' = dropped
        /\ files' = files \/ files' = [files EXCEPT ![cur] = NoFiles]
    BY <1>13 DEF CloseSaved, CloseDiscarded, RemoveWork, Dropping, Saved, rowVars,
                 history, NoFiles
  <2>2. cur \in dropped \/ taken[cur] = << >> \/ rowStatus[cur] = "saved"
    BY <1>1, <2>1 DEF Unwanted, Ended
  <2>3. \A s \in Sessions : s # cur => files'[s] = files[s]
    BY <1>3, <2>1
  <2>4. Held'
    BY <1>1, <1>13, <2>1, <2>2, <2>3 DEF Held, InFiles
  <2> QED
    BY <1>8, <1>9, <2>4
<1> QED
  BY <1>6, <1>10, <1>11, <1>12, <1>13 DEF KeepsFiles

\* Without pages in memory nothing was acknowledged.
LEMMA EmptyIsEmpty ==
  ASSUME IInv, NumberInv, AlignInv, cur # None, pages = << >>, pc = "finish"
  PROVE  taken[cur] = << >>
<1>1. cur \in Sessions /\ taken \in [Sessions -> Seq(Images)]
  BY Typed
<1>2. rowPages[cur] = {}
  BY DEF NumberInv
<1>3. Whole(cur)
  BY <1>1, <1>2 DEF AlignInv, Holed
<1>4. 1..Len(taken[cur]) = {}
  BY <1>2, <1>3 DEF Whole
<1>5. Len(taken[cur]) \in Nat
  BY <1>1
<1>6. Len(taken[cur]) = 0
  BY <1>4, <1>5
<1> QED
  BY <1>1, <1>6

\* A page that was acknowledged and converted is in the session's directory or
\* in its document, unless a user discarded the session (session.go: finish,
\* discard, removeWork), if besides that the ends of sessions are recorded.
THEOREM PagesAreKept ==
  ASSUME RecordingWorks, "finish" \notin Faults
  PROVE  Spec => []NoPageLost
<1> DEFINE Inv == IInv /\ DocumentInv /\ ImageInv /\ KeptInv
<1>1. Init => Inv
  BY InitialInv, InitialDocuments, InitialPages
<1>2. Inv /\ [Next]_vars => Inv'
  <2> SUFFICES ASSUME Inv, [Next]_vars PROVE Inv'
    OBVIOUS
  <2>1. IInv' /\ DocumentInv' /\ ImageInv'
    BY InvStep, DocumentStep, ImageKept
  <2>2. CASE Next
    <3>2. \A j \in jobs :
              j.stage \in Converting => files[j.session][j.page] \in {Absent, Torn}
      BY DEF DocumentInv, SlotInv, Converting
    <3>3. pc = "finish" /\ cur # None /\ pages = << >> => taken[cur] = << >>
      BY EmptyIsEmpty DEF DocumentInv
    <3> QED
      BY <2>1, <2>2, <3>2, <3>3, KeptStep
  <2>3. CASE UNCHANGED vars
    BY <2>1, <2>3
       DEF KeptInv, InFiles, vars, rowVars, diskVars, memoryVars, history
  <2> QED
    BY <2>2, <2>3
<1>3. Inv => NoPageLost
  <2> SUFFICES ASSUME Inv, NEW s \in Sessions, NEW i \in 1..Len(taken[s]),
                      taken[s][i] \in converted, s \notin dropped
               PROVE  InFiles(s, taken[s][i]) \/ InDocument(s, taken[s][i])
    BY DEF NoPageLost
  <2>1. CASE rowStatus[s] = "saved"
    <3>1. Complete(docs[rowOutput[s]], s)
      BY <2>1 DEF DocumentInv, SavedInv
    <3> QED
      BY <2>1, <3>1 DEF InDocument, Complete
  <2>2. CASE rowStatus[s] # "saved"
    BY <2>2 DEF KeptInv
  <2> QED
    BY <2>1, <2>2
<1> QED
  BY <1>1, <1>2, <1>3, PTL DEF Spec

-----------------------------------------------------------------------------
(* The status, the log, and which sessions are open.                       *)

\* Every way back to where no action runs has set the status.
LEMMA StatusStep ==
  ASSUME StatusInv, Next
  PROVE  StatusInv'
<1> USE DEF StatusInv, Goto, Return
<1>1. ASSUME NEW a \in Commands, Do(a) PROVE StatusInv'
  BY <1>1 DEF Do, EntryPoint
<1>2. ASSUME ScanStep PROVE StatusInv'
  BY <1>2
     DEF ScanStep, Scan, CreateSession, CreateSessionFails, MakeWorkDir, MakeWorkDirFails,
         BeginScan, AcquireImage, AcquireImageFails, ScanFailed, AddPage, AddPageFails, AppendPage,
         RefreshPage
<1>3. ASSUME FinishStep PROVE StatusInv'
  BY <1>3
     DEF FinishStep, FinishNothing, FinishBegin, Merge, MergeFails, FailSession,
         SaveSession, UploadSucceeds, UploadFails, UploadUnrecorded, Upload, CloseSaved,
         DiscardBegin, DiscardSession, CloseDiscarded
<1>4. ASSUME NEW j \in jobs, Process(j) PROVE StatusInv'
  BY <1>4
     DEF Process, BeginWriting, Convert, ConvertFails, ReportProcessed, ReportBroken, CountDown,
              Release
<1>5. ASSUME Crash PROVE StatusInv'
  BY <1>5 DEF Crash
<1>6. ASSUME Restart PROVE StatusInv'
  BY <1>6
     DEF Restart, RestartIdle, RecoverSession, RecoverWithoutPages, Resume, MarkLost
<1> QED
  BY <1>1, <1>2, <1>3, <1>4, <1>5, <1>6 DEF Next

\* However an action ended, no status is left that says one is under way
\* (session.go: scan, finish, discard, fail).
THEOREM StatusIsSettled == Spec => []StatusSettles
<1>1. Init => StatusInv
  BY DEF Init, StatusInv
<1>2. StatusInv /\ [Next]_vars => StatusInv'
  BY StatusStep DEF StatusInv, vars
<1>3. StatusInv => StatusSettles
  BY DEF StatusInv, StatusSettles
<1> QED
  BY <1>1, <1>2, <1>3, PTL DEF Spec

\* The entries that report on a page.
Reports == {"page-processed", "process-failed"}

\* At most one entry is appended, and a report is of a goroutine.
LogsPages ==
    \/ log' = log
    \/ \E e \in Event :
           /\ log' = Append(log, e)
           /\ e.kind \in Reports =>
                  \E j \in jobs : e = Entry(e.kind, j.session, j.page)

\* Reports are of pages that goroutines were started for.
LEMMA ReportsStep ==
  ASSUME IInv, Next
  PROVE  LogsPages
<1>1. log' = log \/ \E e \in Event : log' = Append(log, e)
  <2>1. /\ ManagerTypes /\ HistoryTypes /\ DatabaseTypes /\ ControlInv /\ RoomInv
        /\ FreshInv /\ PageInv
    BY DEF IInv, TypeOK
  <2> QED
    BY <2>1, LogGrows
<1>2. log \in Seq(Event)
  BY Typed DEF DatabaseTypes
<1>3. ASSUME NEW k, NEW s, NEW p, log' = Append(log, Entry(k, s, p)),
             k \in Reports => \E j \in jobs : s = j.session /\ p = j.page
      PROVE  LogsPages
  <2>1. CASE log' = log
    BY <2>1 DEF LogsPages
  <2>2. ASSUME NEW e \in Event, log' = Append(log, e) PROVE LogsPages
    <3>1. log'[Len(log) + 1] = e
      BY <1>2, <2>2
    <3>2. log'[Len(log) + 1] = Entry(k, s, p)
      BY <1>2, <1>3
    <3>3. e = Entry(k, s, p) /\ e.kind = k
      BY <3>1, <3>2 DEF Entry
    <3> QED
      BY <1>3, <2>2, <3>3 DEF LogsPages
  <2> QED
    BY <1>1, <2>1, <2>2
<1>4. log' = log => LogsPages
  BY DEF LogsPages
<1> USE DEF Reports
<1>5. ASSUME NEW a \in Commands, Do(a) PROVE LogsPages
  BY <1>4, <1>5 DEF Do
<1>6. ASSUME ScanStep PROVE LogsPages
  BY <1>3, <1>4, <1>6
     DEF ScanStep, Scan, CreateSession, CreateSessionFails, MakeWorkDir, MakeWorkDirFails,
         BeginScan, AcquireImage, AcquireImageFails, ScanFailed, AddPage, AddPageFails, AppendPage,
         RefreshPage, Record
<1>7. ASSUME FinishStep PROVE LogsPages
  BY <1>3, <1>4, <1>7
     DEF FinishStep, FinishNothing, FinishBegin, Merge, MergeFails, FailSession,
         SaveSession, UploadSucceeds, UploadFails, UploadUnrecorded, Upload, CloseSaved,
         DiscardBegin, DiscardSession, CloseDiscarded, FinishSession
<1>8. ASSUME NEW j \in jobs, Process(j) PROVE LogsPages
  BY <1>3, <1>4, <1>8
     DEF Process, BeginWriting, Convert, ConvertFails, ReportProcessed, ReportBroken, CountDown,
         Release, Record
<1>9. ASSUME Crash PROVE LogsPages
  BY <1>4, <1>9 DEF Crash
<1>10. ASSUME Restart PROVE LogsPages
  BY <1>3, <1>4, <1>10
     DEF Restart, RestartIdle, RecoverSession, RecoverWithoutPages, Resume, MarkLost,
         FinishSession
<1> QED
  BY <1>5, <1>6, <1>7, <1>8, <1>9, <1>10 DEF Next

\* No page is recorded, and none handed to a goroutine.
SamePlaces ==
    /\ UNCHANGED rowPages
    /\ \A k \in jobs' : \E j \in jobs : k.session = j.session /\ k.page = j.page
    /\ pc' = "append" => /\ UNCHANGED <<cur, pages>>
                         /\ pc = "append" \/ NextPage \in rowPages[cur]

\* Pages are recorded and handed to goroutines by two steps.
LEMMA SamePlacesStep ==
  ASSUME "add-page" \notin Faults, jobs \subseteq Job, Next, ~AddPage, ~AppendPage
  PROVE  SamePlaces
<1> USE DEF SamePlaces, rowVars, diskVars, memoryVars, jobVars, history, Goto, Return
<1>1. ASSUME NEW a \in Commands, Do(a) PROVE SamePlaces
  BY <1>1 DEF Do, EntryPoint
<1>2. ASSUME ScanStep PROVE SamePlaces
  BY <1>2
     DEF ScanStep, Scan, CreateSession, CreateSessionFails, MakeWorkDir, MakeWorkDirFails,
         BeginScan, AcquireImage, AcquireImageFails, ScanFailed, AddPageFails, FailsIf, Fault,
         RefreshPage
<1>3. ASSUME FinishStep PROVE SamePlaces
  BY <1>3
     DEF FinishStep, FinishNothing, FinishBegin, Merge, MergeFails, FailSession,
         SaveSession, UploadSucceeds, UploadFails, UploadUnrecorded, Upload, CloseSaved,
         DiscardBegin, DiscardSession, CloseDiscarded, ClearSession, FinishSession
<1>4. ASSUME NEW j \in jobs, Process(j) PROVE SamePlaces
  <2>1. UNCHANGED <<rowPages, cur, pages, pc>>
    BY <1>4
       DEF Process, BeginWriting, Convert, ConvertFails, ReportProcessed, ReportBroken, CountDown,
                Release
  <2>2. CASE jobs' = jobs \ {j}
    BY <2>1, <2>2
  <2>3. ASSUME NEW st, Advance(j, st) PROVE SamePlaces
    <3> DEFINE b == [j EXCEPT !.stage = st]
    <3>1. b.session = j.session /\ b.page = j.page
      BY DEF Job
    <3>2. jobs' = (jobs \ {j}) \cup {b}
      BY <2>3 DEF Advance
    <3> HIDE DEF b
    <3> QED
      BY <2>1, <3>1, <3>2
  <2> QED
    BY <1>4, <2>2, <2>3
       DEF Process, BeginWriting, Convert, ConvertFails, ReportProcessed, ReportBroken, CountDown,
           Release
<1>5. ASSUME Crash PROVE SamePlaces
  BY <1>5 DEF Crash
<1>6. ASSUME Restart PROVE SamePlaces
  BY <1>6
     DEF Restart, RestartIdle, RecoverSession, RecoverWithoutPages, Resume, MarkLost,
         FinishSession
<1> QED
  BY <1>1, <1>2, <1>3, <1>4, <1>5, <1>6 DEF Next

\* The page of every goroutine is recorded, and so is its entry.
LEMMA LoggedStep ==
  ASSUME "add-page" \notin Faults, IInv, LoggedInv, ScannedBeforeProcessed, Next
  PROVE  LoggedInv' /\ ScannedBeforeProcessed'
<1> DEFINE Scanned == \A s \in Sessions : \A p \in rowPages[s] :
                          \E i \in 1..Len(log) : log[i] = Entry("page-scanned", s, p)
           Placed == \A j \in jobs : j.page \in rowPages[j.session]
           Ahead == pc = "append" => NextPage \in rowPages[cur]
<1>1. Scanned /\ Placed /\ Ahead
  BY DEF LoggedInv
<1>2. /\ SlotTypes /\ ControlInv /\ Len(pages) \in Nat
      /\ cur \in Sessions \cup {None} /\ jobs \subseteq Job
      /\ rowPages \in [Sessions -> SUBSET PageNos]
  BY Typed
<1>3. log \in Seq(Event)
  BY Typed DEF DatabaseTypes
<1>4. LogsPages
  BY ReportsStep
<1>5. /\ Len(log) \in Nat /\ Len(log') \in Nat /\ Len(log') >= Len(log)
      /\ \A i \in 1..Len(log) : log'[i] = log[i]
  BY <1>3, <1>4 DEF LogsPages
<1> HIDE DEF Scanned, Placed, Ahead
<1>6. ASSUME NEW s \in Sessions, NEW p \in rowPages[s]
      PROVE  \E i \in 1..Len(log') : log'[i] = Entry("page-scanned", s, p)
  <2>1. PICK i \in 1..Len(log) : log[i] = Entry("page-scanned", s, p)
    BY <1>1 DEF Scanned
  <2>2. i \in 1..Len(log') /\ log'[i] = log[i]
    BY <1>5, <2>1
  <2> QED
    BY <2>1, <2>2
<1>7. ScannedBeforeProcessed'
  <2> SUFFICES ASSUME NEW k \in 1..Len(log'), log'[k].kind \in Reports
               PROVE  \E i \in 1..(k - 1) :
                          log'[i] = Entry("page-scanned", log'[k].session, log'[k].page)
    BY DEF ScannedBeforeProcessed, Before, Reports
  <2>1. CASE k \in 1..Len(log)
    <3>1. log'[k] = log[k]
      BY <1>5, <2>1
    <3>2. PICK i \in 1..(k - 1) :
              log[i] = Entry("page-scanned", log[k].session, log[k].page)
      BY <2>1, <3>1 DEF ScannedBeforeProcessed, Before, Reports
    <3>3. i \in 1..Len(log)
      BY <1>5, <2>1, <3>2
    <3>4. log'[i] = log[i]
      BY <1>5, <3>3
    <3> QED
      BY <3>1, <3>2, <3>4
  <2>2. CASE k \notin 1..Len(log)
    <3>1. PICK e \in Event :
              /\ log' = Append(log, e)
              /\ e.kind \in Reports => \E j \in jobs : e = Entry(e.kind, j.session, j.page)
      BY <1>4, <2>2 DEF LogsPages
    <3>2. k = Len(log) + 1 /\ log'[k] = e
      BY <1>3, <2>2, <3>1
    <3>3. PICK j \in jobs : e = Entry(e.kind, j.session, j.page)
      BY <3>1, <3>2
    <3>4. e.session = j.session /\ e.page = j.page
      BY <3>3 DEF Entry
    <3>5. j.session \in Sessions /\ j.page \in rowPages[j.session]
      BY <1>1, <1>2, <3>3 DEF Placed, Job
    <3>6. PICK i \in 1..Len(log) : log[i] = Entry("page-scanned", j.session, j.page)
      BY <1>1, <3>5 DEF Scanned
    <3>7. i \in 1..(k - 1) /\ log'[i] = log[i]
      BY <1>5, <3>2, <3>6
    <3> QED
      BY <3>2, <3>4, <3>6, <3>7
  <2> QED
    BY <2>1, <2>2
<1>8. CASE AddPage
  <2>1. /\ pc = "add-page" /\ UNCHANGED <<cur, pages, jobs>>
        /\ rowPages' = [rowPages EXCEPT ![cur] = @ \cup {NextPage}]
        /\ log' = Append(log, Entry("page-scanned", cur, NextPage))
    BY <1>8 DEF AddPage, memoryVars, jobVars
  <2>2. cur \in Sessions
    BY <1>2, <2>1 DEF ControlInv, HeldPoints
  <2>3. /\ rowPages'[cur] = rowPages[cur] \cup {NextPage}
        /\ \A s \in Sessions : s # cur => rowPages'[s] = rowPages[s]
    BY <1>2, <2>1, <2>2
  <2>4. /\ Len(log) + 1 \in 1..Len(log')
        /\ log'[Len(log) + 1] = Entry("page-scanned", cur, NextPage)
    BY <1>3, <2>1
  <2>5. Scanned'
    BY <1>6, <2>3, <2>4 DEF Scanned
  <2>6. Placed'
    <3>1. \A j \in jobs : j.session \in Sessions
      BY <1>2 DEF Job
    <3> QED
      BY <1>1, <2>1, <2>3, <3>1 DEF Placed
  <2>7. Ahead'
    BY <2>1, <2>3 DEF Ahead, NextPage
  <2> QED
    BY <1>7, <2>5, <2>6, <2>7 DEF LoggedInv, Scanned, Placed, Ahead
<1>9. CASE AppendPage
  <2> DEFINE n == [session |-> cur, page |-> NextPage, image |-> scans, stage |-> "convert"]
  <2>1. /\ pc = "append" /\ pc' = "refresh" /\ UNCHANGED rowPages
        /\ jobs' = jobs \cup {n}
    BY <1>9 DEF AppendPage, Goto, rowVars
  <2>2. n.session = cur /\ n.page = NextPage
    OBVIOUS
  <2> HIDE DEF n
  <2>3. Placed'
    BY <1>1, <2>1, <2>2 DEF Placed, Ahead
  <2>4. Scanned'
    BY <1>6, <2>1 DEF Scanned
  <2> QED
    BY <1>7, <2>1, <2>3, <2>4 DEF LoggedInv, Scanned, Placed, Ahead
<1>10. CASE SamePlaces
  <2>1. Scanned'
    BY <1>6, <1>10 DEF SamePlaces, Scanned
  <2>2. Placed'
    BY <1>1, <1>10 DEF SamePlaces, Placed
  <2>3. Ahead'
    BY <1>1, <1>10 DEF SamePlaces, Ahead, NextPage
  <2> QED
    BY <1>7, <2>1, <2>2, <2>3 DEF LoggedInv, Scanned, Placed, Ahead
<1> QED
  BY <1>2, <1>8, <1>9, <1>10, SamePlacesStep

\* The log shows a page's processing after its scan, in whatever order
\* goroutines, actions and restarts come (session.go: scan, processPage), if the
\* scan is recorded.
THEOREM ScansAreLoggedFirst ==
  ASSUME "add-page" \notin Faults
  PROVE  Spec => []ScannedBeforeProcessed
<1>1. Init => IInv /\ LoggedInv /\ ScannedBeforeProcessed
  <2> SUFFICES ASSUME Init PROVE LoggedInv /\ ScannedBeforeProcessed
    BY InitialInv
  <2>1. /\ \A s \in Sessions : rowPages[s] = {}
        /\ jobs = {} /\ pc = "ready"
    BY DEF Init
  <2>2. 1..Len(log) = {}
    <3>1. log = << >>
      BY DEF Init
    <3> QED
      BY <3>1
  <2> QED
    BY <2>1, <2>2 DEF LoggedInv, ScannedBeforeProcessed
<1>2. IInv /\ LoggedInv /\ ScannedBeforeProcessed /\ [Next]_vars
          => IInv' /\ LoggedInv' /\ ScannedBeforeProcessed'
  <2> SUFFICES ASSUME IInv, LoggedInv, ScannedBeforeProcessed, [Next]_vars
               PROVE  IInv' /\ LoggedInv' /\ ScannedBeforeProcessed'
    OBVIOUS
  <2>1. IInv'
    BY InvStep
  <2>2. CASE Next
    BY <2>1, <2>2, LoggedStep
  <2>3. CASE UNCHANGED vars
    BY <2>1, <2>3
       DEF LoggedInv, ScannedBeforeProcessed, Before, NextPage, vars, rowVars,
           memoryVars, jobVars
  <2> QED
    BY <2>2, <2>3
<1> QED
  BY <1>1, <1>2, PTL DEF Spec

\* No session is opened, ended, held or let go.
SameLife ==
    /\ UNCHANGED <<rowStatus, cur, lastId>>
    /\ \/ pc' = pc
       \/ /\ {pc, pc'} \cap {"down", "mkdir"} = {}
          /\ pc' \in Closing => pc \in Closing

\* Which steps open, hold and end sessions.
LEMMA SameLifeStep ==
  ASSUME "mkdir" \notin Faults, Next,
         ~CreateSession, ~MakeWorkDir, ~FailSession, ~SaveSession, ~DiscardSession,
         ~CloseSaved, ~CloseDiscarded, ~Crash, ~Restart
  PROVE  SameLife
<1> USE DEF SameLife, Closing, rowVars, memoryVars, Goto, Return
<1>1. ASSUME NEW a \in Commands, Do(a) PROVE SameLife
  BY <1>1 DEF Do, EntryPoint
<1>2. ASSUME ScanStep PROVE SameLife
  BY <1>2
     DEF ScanStep, Scan, CreateSessionFails, MakeWorkDirFails, Fault, BeginScan,
         AcquireImage, AcquireImageFails, ScanFailed, AddPage, AddPageFails, AppendPage,
         RefreshPage
<1>3. ASSUME FinishStep PROVE SameLife
  BY <1>3
     DEF FinishStep, FinishNothing, FinishBegin, Merge, MergeFails,
         UploadSucceeds, UploadFails, UploadUnrecorded, Upload, DiscardBegin
<1>4. ASSUME NEW j \in jobs, Process(j) PROVE SameLife
  BY <1>4
     DEF Process, BeginWriting, Convert, ConvertFails, ReportProcessed, ReportBroken, CountDown,
              Release
<1> QED
  BY <1>1, <1>2, <1>3, <1>4 DEF Next

\* A recorded end is an end.
LEMMA Ends ==
  ASSUME "finish" \notin Faults, RowTypes, NEW s \in Sessions, NEW st, NEW d, NEW k,
         FinishSession(s, st, d, k)
  PROVE  /\ rowStatus' = [rowStatus EXCEPT ![s] = st] /\ lastId' = lastId
         /\ rowStatus'[s] = st
         /\ \A t \in Sessions : t # s => rowStatus'[t] = rowStatus[t]
BY DEF FinishSession, Fault, RowTypes

\* Sessions are opened one after the other, each when the last has ended.
LEMMA LifeStep ==
  ASSUME {"mkdir", "finish"} \cap Faults = {}, pc = "down" => EndingWorks,
         IInv, LifeInv, Next
  PROVE  LifeInv'
<1> DEFINE Active == \A s \in Sessions :
                         rowStatus[s] = "active" =>
                             IF pc \in {"down", "mkdir"} THEN s = lastId ELSE s = cur
           Newest == cur \in {None, lastId}
           Began == \A s \in Sessions : s <= lastId => rowStatus[s] # "none"
           Over == pc \in Closing => rowStatus[cur] # "active"
<1>1. Active /\ Newest /\ Began /\ Over
  BY DEF LifeInv, ActiveIsCurrent
<1>2. SUFFICES Active' /\ Newest' /\ Began' /\ Over'
  BY DEF LifeInv, ActiveIsCurrent
<1>3. /\ ControlInv /\ FreshInv /\ OpenIsActive /\ lastId \in Nat
      /\ cur \in Sessions \cup {None}
  BY Typed
<1>4. RowTypes /\ \A s \in Sessions : s # None
  <2>1. DatabaseTypes
    BY Typed
  <2>2. RowTypes
    BY <2>1 DEF RowTypes, DatabaseTypes
  <2>3. \A s \in Sessions : s # None
    BY DEF Sessions, None
  <2> QED
    BY <2>2, <2>3
<1> HIDE DEF Active, Newest, Began, Over
<1>5. CASE SameLife
  BY <1>1, <1>5 DEF SameLife, Active, Newest, Began, Over
<1>6. CASE CreateSession
  <2>1. /\ cur = None /\ cur' = None /\ lastId' = lastId + 1
        /\ pc = "create" /\ pc' = "mkdir"
        /\ rowStatus' = [rowStatus EXCEPT ![lastId'] = "active"]
    BY <1>3, <1>6 DEF CreateSession, Goto, memoryVars, ControlInv
  <2>2. \A s \in Sessions : rowStatus[s] # "active"
    BY <1>1, <1>4, <2>1 DEF Active
  <2>3. \A s \in Sessions : IF s = lastId' THEN rowStatus'[s] = "active"
                                           ELSE rowStatus'[s] = rowStatus[s]
    BY <1>4, <2>1 DEF RowTypes
  <2>4. \A s \in Sessions : s <= lastId' => s = lastId' \/ s <= lastId
    BY <1>3, <2>1 DEF Sessions
  <2>5. Active' /\ Newest' /\ Over'
    BY <2>1, <2>2, <2>3 DEF Active, Newest, Over, Closing
  <2>6. Began'
    BY <1>1, <2>3, <2>4 DEF Began
  <2> QED
    BY <2>5, <2>6
<1>7. CASE MakeWorkDir
  <2>1. /\ pc = "mkdir" /\ pc' = "begin" /\ cur' = lastId /\ lastId' = lastId
        /\ rowStatus' = rowStatus
    BY <1>7 DEF MakeWorkDir, Goto, rowVars
  <2> QED
    BY <1>1, <2>1 DEF Active, Newest, Began, Over, Closing
<1>8. ASSUME NEW st \in Terminal, NEW d, NEW k, FinishSession(cur, st, d, k),
             pc \in EndPoints, pc' \notin {"down", "mkdir"},
             cur' = cur \/ (cur' = None /\ pc' \notin Closing)
      PROVE  Active' /\ Newest' /\ Began' /\ Over'
  <2>1. cur \in Sessions
    BY <1>3, <1>8 DEF ControlInv, HeldPoints
  <2>2. /\ lastId' = lastId /\ rowStatus'[cur] = st
        /\ \A t \in Sessions : t # cur => rowStatus'[t] = rowStatus[t]
    BY <1>4, <1>8, <2>1, Ends
  <2>3. \A s \in Sessions : rowStatus'[s] # "active"
    BY <1>1, <1>8, <2>2 DEF Active, Terminal, EndPoints
  <2>4. Began'
    BY <1>1, <1>8, <2>1, <2>2 DEF Began, Terminal
  <2>5. Over' /\ Active' /\ Newest'
    BY <1>1, <1>8, <2>1, <2>2, <2>3 DEF Over, Active, Newest
  <2> QED
    BY <2>4, <2>5
<1>9. CASE FailSession
  <2>1. /\ FinishSession(cur, "failed", None, "save-failed") /\ pc = "record-failed"
        /\ pc' = "ready" /\ cur' = None
    BY <1>9 DEF FailSession, Return, ClearSession
  <2> QED
    BY <1>8, <2>1 DEF Terminal, EndPoints, Closing
<1>10. CASE SaveSession
  <2>1. /\ FinishSession(cur, "saved", Len(docs), "session-saved") /\ pc = "record-saved"
        /\ pc' \in Closing /\ cur' = cur
    BY <1>10 DEF SaveSession, Goto, memoryVars, Closing
  <2> QED
    BY <1>8, <2>1 DEF Terminal, EndPoints, Closing
<1>11. CASE DiscardSession
  <2>1. /\ FinishSession(cur, "discarded", None, "session-discarded")
        /\ pc = "record-discarded" /\ pc' = "remove-discarded" /\ cur' = cur
    BY <1>11 DEF DiscardSession, Goto, memoryVars
  <2> QED
    BY <1>8, <2>1 DEF Terminal, EndPoints, Closing
<1>12. CASE CloseSaved \/ CloseDiscarded
  <2>1. /\ pc \in Closing /\ pc' \in {"scan", "ready"} /\ cur' = None
        /\ UNCHANGED <<rowStatus, lastId>>
    BY <1>12
       DEF CloseSaved, CloseDiscarded, ClearSession, Goto, Return, Closing, rowVars
  <2>2. cur \in Sessions /\ pc \notin {"down", "mkdir"}
    BY <1>3, <2>1 DEF ControlInv, HeldPoints, EndPoints, Closing
  <2>3. \A s \in Sessions : rowStatus[s] # "active"
    BY <1>1, <2>1, <2>2 DEF Active, Over
  <2> QED
    BY <1>1, <2>1, <2>3 DEF Active, Newest, Began, Over, Closing
<1>13. ASSUME Crash PROVE Active' /\ Newest' /\ Began' /\ Over'
  <2>1. pc' = "down" /\ cur' = None /\ UNCHANGED <<rowStatus, lastId>>
    BY <1>13 DEF Crash, rowVars
  <2>2. \A s \in Sessions : rowStatus[s] = "active" => s = lastId
    BY <1>1, <1>4 DEF Active, Newest
  <2> QED
    BY <1>1, <2>1, <2>2 DEF Active, Newest, Began, Over, Closing
<1>14. CASE Restart
  <2>1. pc = "down" /\ pc' = "ready" /\ lastId' = lastId /\ cur = None
    BY <1>3, <1>14
       DEF Restart, RestartIdle, RecoverSession, RecoverWithoutPages, Resume, MarkLost,
           FinishSession, rowVars, ControlInv
  <2>2. \A s \in Sessions : rowStatus[s] = "active" => s = lastId
    BY <1>1, <2>1 DEF Active
  <2>3. CASE RestartIdle
    <3>1. \A s \in Sessions : ~IsActiveSession(s)
      BY <2>3 DEF RestartIdle, FailsIf, Fault, EndingWorks
    <3>2. \A s \in Sessions : s <= s
      BY DEF Sessions
    <3>3. \A s \in Sessions : rowStatus[s] # "active"
      BY <2>2, <3>1, <3>2 DEF IsActiveSession
    <3>4. UNCHANGED <<rowStatus, cur>>
      BY <2>3 DEF RestartIdle, rowVars, memoryVars
    <3> QED
      BY <1>1, <2>1, <3>3, <3>4 DEF Active, Newest, Began, Over, Closing
  <2>4. ASSUME NEW s \in Sessions, RecoverSession(s) \/ RecoverWithoutPages(s)
        PROVE  Active' /\ Newest' /\ Began' /\ Over'
    <3>1. rowStatus[s] = "active" /\ cur' = s /\ rowStatus' = rowStatus
      BY <2>4
         DEF RecoverSession, RecoverWithoutPages, Resume, IsActiveSession, rowVars
    <3> QED
      BY <1>1, <2>1, <2>2, <3>1 DEF Active, Newest, Began, Over, Closing
  <2>5. ASSUME NEW s \in Sessions, MarkLost(s)
        PROVE  Active' /\ Newest' /\ Began' /\ Over'
    <3>1. /\ rowStatus[s] = "active" /\ cur' = cur
          /\ FinishSession(s, "failed", None, "save-failed")
      BY <2>5 DEF MarkLost, IsActiveSession, memoryVars
    <3>2. /\ rowStatus'[s] = "failed"
          /\ \A t \in Sessions : t # s => rowStatus'[t] = rowStatus[t]
      BY <1>4, <3>1, Ends
    <3> QED
      BY <1>1, <2>1, <2>2, <3>1, <3>2 DEF Active, Newest, Began, Over, Closing
  <2> QED
    BY <1>14, <2>3, <2>4, <2>5 DEF Restart
<1> QED
  BY <1>5, <1>6, <1>7, <1>9, <1>10, <1>11, <1>12, <1>13, <1>14, SameLifeStep

\* At first no session was opened.
LEMMA InitialLife == Init => LifeInv
<1> SUFFICES ASSUME Init PROVE LifeInv
  OBVIOUS
<1>1. /\ \A s \in Sessions : rowStatus[s] = "none"
      /\ cur = None /\ lastId = 0 /\ pc = "ready"
  BY DEF Init
<1>2. \A s \in Sessions : ~(s <= lastId)
  BY <1>1 DEF Sessions
<1> QED
  BY <1>1, <1>2 DEF LifeInv, ActiveIsCurrent, Closing

\* Stuttering steps included.
LEMMA LifeKept ==
  ASSUME {"mkdir", "finish"} \cap Faults = {}, pc = "down" => EndingWorks,
         IInv, LifeInv, [Next]_vars
  PROVE  LifeInv'
<1>1. CASE UNCHANGED vars
  BY <1>1 DEF LifeInv, ActiveIsCurrent, vars, rowVars, memoryVars
<1> QED
  BY <1>1, LifeStep

\* No session stays active in the database but the one that is open, whatever
\* crashes and restarts happened (session.go: recover, start, finish, discard;
\* store.go: ActiveSession), if ends are recorded and the restart can look.
THEOREM ActiveSessionIsCurrent ==
  ASSUME EndingWorks
  PROVE  Spec => []ActiveIsCurrent
<1>1. Init => IInv /\ LifeInv
  BY InitialInv, InitialLife
<1>2. IInv /\ LifeInv /\ [Next]_vars => IInv' /\ LifeInv'
  BY InvStep, LifeKept DEF EndingWorks
<1>3. LifeInv => ActiveIsCurrent
  BY DEF LifeInv
<1> QED
  BY <1>1, <1>2, <1>3, PTL DEF Spec

-----------------------------------------------------------------------------
(* The abstract life of a session.                                         *)

\* Sequences with the same elements are the same.
LEMMA SameSequence ==
  ASSUME NEW A, NEW B, NEW c \in Seq(A), NEW d \in Seq(B), Len(c) = Len(d),
         \A i \in 1..Len(d) : c[i] = d[i]
  PROVE  c = d
<1>1. c = [i \in 1..Len(d) |-> c[i]] /\ d = [i \in 1..Len(d) |-> d[i]]
  OBVIOUS
<1> QED
  BY <1>1

\* What a session's row names stays the same document.
LEMMA SameDocument ==
  ASSUME SavedInv, DocsKept, NEW s \in Sessions, rowStatus'[s] = "saved",
         rowStatus[s] = "saved", rowOutput'[s] = rowOutput[s]
  PROVE  docs'[rowOutput'[s]].content = docs[rowOutput[s]].content
<1>1. rowOutput[s] \in 1..Len(docs)
  BY DEF SavedInv
<1> QED
  BY <1>1 DEF DocsKept

\* Five steps change the life of a session or its pages.
LEMMA LifeChanges ==
  ASSUME Next, ~CreateSession, ~AppendPage, ~SaveSession, ~FailSession, ~DiscardSession,
         \A s \in Sessions : ~MarkLost(s)
  PROVE  UNCHANGED <<rowStatus, rowOutput, taken>>
<1> USE DEF rowVars, history
<1>1. ASSUME NEW a \in Commands, Do(a)
      PROVE  UNCHANGED <<rowStatus, rowOutput, taken>>
  BY <1>1 DEF Do
<1>2. ASSUME ScanStep PROVE UNCHANGED <<rowStatus, rowOutput, taken>>
  BY <1>2
     DEF ScanStep, Scan, CreateSessionFails, MakeWorkDir, MakeWorkDirFails, BeginScan,
         AcquireImage, AcquireImageFails, ScanFailed, AddPage, AddPageFails, RefreshPage
<1>3. ASSUME FinishStep PROVE UNCHANGED <<rowStatus, rowOutput, taken>>
  BY <1>3
     DEF FinishStep, FinishNothing, FinishBegin, Merge, MergeFails, UploadSucceeds,
         UploadFails, UploadUnrecorded, Upload, CloseSaved, DiscardBegin,
         CloseDiscarded
<1>4. ASSUME NEW j \in jobs, Process(j)
      PROVE  UNCHANGED <<rowStatus, rowOutput, taken>>
  BY <1>4
     DEF Process, BeginWriting, Convert, ConvertFails, ReportProcessed, ReportBroken, CountDown,
              Release
<1>5. ASSUME Crash
      PROVE  UNCHANGED <<rowStatus, rowOutput, taken>>
  BY <1>5 DEF Crash
<1>6. ASSUME Restart PROVE UNCHANGED <<rowStatus, rowOutput, taken>>
  BY <1>6 DEF Restart, RestartIdle, RecoverSession, RecoverWithoutPages, Resume
<1> QED
  BY <1>1, <1>2, <1>3, <1>4, <1>5, <1>6 DEF Next

\* The abstract life begins with no session.
LEMMA RefinedInit == Init => Lifecycle!Init
<1> SUFFICES ASSUME Init PROVE Lifecycle!Init
  OBVIOUS
<1>1. /\ \A s \in Sessions : rowStatus[s] = "none"
      /\ taken = [s \in Sessions |-> << >>]
  BY DEF Init
<1>2. ~(crashes > 0)
  <2>1. crashes = 0
    BY DEF Init
  <2> QED
    BY <2>1
<1> QED
  BY <1>1, <1>2 DEF Lifecycle!Init, LifeOf, DocumentOf

\* Ending a session without a document is a Drop.
LEMMA RefinedDrop ==
  ASSUME RowTypes, SavedInv, DocsKept, RowsKept, NEW s \in Sessions,
         rowStatus[s] = "active", NEW end \in {"failed", "discarded"},
         rowStatus' = [rowStatus EXCEPT ![s] = end], UNCHANGED <<taken, crashes>>
  PROVE  Lifecycle!Drop(s, end)
<1>1. rowStatus'[s] = end /\ \A t \in Sessions : t # s => rowStatus'[t] = rowStatus[t]
  BY DEF RowTypes
<1>2. LifeOf' = [LifeOf EXCEPT ![s] = end] /\ LifeOf[s] = "active"
  BY <1>1 DEF LifeOf
<1>3. ASSUME NEW t \in Sessions PROVE DocumentOf'[t] = DocumentOf[t]
  <2>1. CASE rowStatus[t] = "saved"
    <3>1. rowStatus'[t] = "saved" /\ rowOutput'[t] = rowOutput[t]
      BY <2>1 DEF RowsKept, Terminal
    <3> QED
      BY <2>1, <3>1, SameDocument DEF DocumentOf
  <2>2. CASE rowStatus[t] # "saved"
    <3>1. rowStatus'[t] # "saved"
      BY <1>1, <2>2
    <3> QED
      BY <2>2, <3>1 DEF DocumentOf
  <2> QED
    BY <2>1, <2>2
<1>4. DocumentOf' = DocumentOf
  BY <1>3 DEF DocumentOf
<1> QED
  BY <1>2, <1>4 DEF Lifecycle!Drop

\* Every step of the manager is one of the abstract life, or none.
LEMMA RefinedStep ==
  ASSUME "finish" \notin Faults, IInv, SavedInv, ImageInv, LifeInv, Next
  PROVE  Lifecycle!Next \/ UNCHANGED Lifecycle!vars
<1>1. /\ SlotTypes /\ ControlInv /\ OpenIsActive /\ RoomInv /\ FreshInv
      /\ MemoryTypes
      /\ cur \in Sessions \cup {None} /\ lastId \in Nat
      /\ taken \in [Sessions -> Seq(Images)]
      /\ DatabaseTypes /\ DiskTypes /\ HistoryTypes
  BY Typed
<1>2. RowTypes /\ docs \in Seq([session : Sessions, content : Seq(Contents)])
  BY <1>1 DEF RowTypes, DatabaseTypes, DiskTypes
<1>3. RowsKept /\ DocsKept
  BY <1>1, <1>2, RowsKeptStep, DocsKeptStep
<1>4. ASSUME NEW t \in Sessions, (rowStatus'[t] = "saved") <=> (rowStatus[t] = "saved")
      PROVE  DocumentOf'[t] = DocumentOf[t]
  <2>1. CASE rowStatus[t] = "saved"
    <3>1. rowOutput'[t] = rowOutput[t]
      BY <1>3, <2>1 DEF RowsKept, Terminal
    <3> QED
      BY <1>3, <1>4, <2>1, <3>1, SameDocument DEF DocumentOf
  <2>2. CASE rowStatus[t] # "saved"
    BY <1>4, <2>2 DEF DocumentOf
  <2> QED
    BY <2>1, <2>2
<1>5. (\A t \in Sessions : DocumentOf'[t] = DocumentOf[t]) => DocumentOf' = DocumentOf
  BY DEF DocumentOf
<1>6. CASE CreateSession
  <2>1. /\ pc = "create" /\ cur = None /\ lastId' = lastId + 1
        /\ UNCHANGED <<taken, crashes>>
        /\ rowStatus' = [rowStatus EXCEPT ![lastId'] = "active"]
    BY <1>1, <1>6 DEF CreateSession, ControlInv, history
  <2>2. lastId' \in Sessions
    <3>1. lastId \in 0..MaxSessions
      BY <1>1 DEF DatabaseTypes
    <3> QED
      BY <1>1, <1>6, <3>1, RoomForSession DEF Sessions
  <2> DEFINE n == lastId'
  <2>3. /\ rowStatus[n] = "none"
        /\ \A t \in Sessions : rowStatus[t] # "active"
        /\ \A t \in Sessions : t < n => rowStatus[t] # "none"
    <3>1. \A t \in Sessions : t < n => t <= lastId
      BY <1>1, <2>1 DEF Sessions
    <3>2. lastId < n
      BY <1>1, <2>1
    <3>3. rowStatus[n] = "none"
      BY <1>1, <2>2, <3>2 DEF FreshInv
    <3>4. \A t \in Sessions : t # None
      BY DEF Sessions, None
    <3>5. \A t \in Sessions : rowStatus[t] # "active"
      BY <2>1, <3>4 DEF LifeInv, ActiveIsCurrent
    <3> QED
      BY <3>1, <3>3, <3>5 DEF LifeInv
  <2>4. rowStatus' = [rowStatus EXCEPT ![n] = "active"] /\ n \in Sessions
    BY <2>1, <2>2
  <2> HIDE DEF n
  <2>5. /\ rowStatus'[n] = "active"
        /\ \A t \in Sessions : t # n => rowStatus'[t] = rowStatus[t]
    BY <1>2, <2>4 DEF RowTypes
  <2>6. LifeOf' = [LifeOf EXCEPT ![n] = "active"]
    BY <2>4, <2>5 DEF LifeOf
  <2>7. \A t \in Sessions : (rowStatus'[t] = "saved") <=> (rowStatus[t] = "saved")
    BY <2>3, <2>5
  <2>8. DocumentOf' = DocumentOf
    BY <1>4, <1>5, <2>7
  <2>9. Lifecycle!Open(n)
    BY <2>1, <2>3, <2>4, <2>6, <2>8 DEF Lifecycle!Open, LifeOf
  <2> QED
    BY <2>4, <2>9 DEF Lifecycle!Next
<1>7. CASE AppendPage
  <2>1. /\ pc = "append" /\ UNCHANGED <<rowStatus, crashes>>
        /\ taken' = [taken EXCEPT ![cur] = Append(@, scans)]
    BY <1>7 DEF AppendPage, rowVars
  <2>2. cur \in Sessions /\ rowStatus[cur] = "active"
    BY <1>1, <2>1 DEF OpenIsActive, ControlInv, HeldPoints, Closing
  <2>3. scans \in Images
    <3>1. scans \in 0..MaxScans /\ Len(pages) < scans /\ Len(pages) \in Nat
      BY <2>1, Typed DEF PageInv
    <3> QED
      BY <3>1, BoundsAssumption DEF Images
  <2>4. \A t \in Sessions : \A i \in 1..Len(taken[t]) : taken[t][i] # scans
    <3>1. scans \in Nat
      BY <2>3 DEF Images
    <3> QED
      BY <2>1, <3>1 DEF ImageInv
  <2>5. LifeOf' = LifeOf /\ LifeOf[cur] = "active"
    BY <2>1, <2>2 DEF LifeOf
  <2>6. DocumentOf' = DocumentOf
    BY <1>4, <1>5, <2>1
  <2>7. Lifecycle!Take(cur, scans)
    BY <2>1, <2>4, <2>5, <2>6 DEF Lifecycle!Take
  <2> QED
    BY <2>2, <2>3, <2>7 DEF Lifecycle!Next
<1>8. CASE SaveSession
  <2>1. /\ pc = "record-saved" /\ UNCHANGED <<taken, docs, crashes>>
        /\ FinishSession(cur, "saved", Len(docs), "session-saved")
    BY <1>8 DEF SaveSession, history, diskVars
  <2>2. cur \in Sessions /\ rowStatus[cur] = "active"
    BY <1>1, <2>1 DEF OpenIsActive, ControlInv, HeldPoints, EndPoints, Closing
  <2>3. /\ rowStatus' = [rowStatus EXCEPT ![cur] = "saved"]
        /\ rowStatus'[cur] = "saved" /\ rowOutput'[cur] = Len(docs)
        /\ \A t \in Sessions : t # cur => rowStatus'[t] = rowStatus[t]
    BY <1>2, <2>1, <2>2 DEF FinishSession, Fault, RowTypes
  <2>4. LifeOf' = [LifeOf EXCEPT ![cur] = "saved"] /\ LifeOf[cur] = "active"
    BY <2>2, <2>3 DEF LifeOf
  <2>5. /\ taken[cur] # << >>
        /\ \/ docs[Len(docs)].content = taken[cur]
           \/ /\ crashes > 0 /\ Len(taken[cur]) = 1
              /\ docs[Len(docs)].content = <<Torn>>
    <3> DEFINE c == docs[Len(docs)].content
    <3>1. docs # << >> /\ taken[cur] # << >> /\ Complete(docs[Len(docs)], cur)
      BY <2>1 DEF SavedInv
    <3>2. c \in Seq(Contents)
      <4> DEFINE D == [session : Sessions, content : Seq(Contents)]
      <4>1. docs \in Seq(D)
        BY <1>2
      <4>2. docs[Len(docs)] \in D
        <5> HIDE DEF D
        <5> QED
          BY <3>1, <4>1
      <4> QED
        BY <4>2
    <3>3. /\ Len(c) = Len(taken[cur]) /\ taken[cur] \in Seq(Images)
          /\ \A i \in 1..Len(taken[cur]) :
                 \/ c[i] = taken[cur][i]
                 \/ c[i] = Torn /\ Len(taken[cur]) = 1 /\ crashes > 0
      BY <1>1, <2>2, <3>1 DEF Complete
    <3> HIDE DEF c
    <3>4. CASE \A i \in 1..Len(taken[cur]) : c[i] = taken[cur][i]
      <4>1. c = taken[cur]
        BY <3>2, <3>3, <3>4, SameSequence
      <4> QED
        BY <3>1, <4>1 DEF c
    <3>5. CASE Len(taken[cur]) = 1 /\ crashes > 0 /\ c[1] = Torn
      <4>1. <<Torn>> \in Seq({Torn}) /\ Len(<<Torn>>) = 1 /\ <<Torn>>[1] = Torn
        OBVIOUS
      <4>2. Len(c) = Len(<<Torn>>) /\ \A i \in 1..Len(<<Torn>>) : c[i] = <<Torn>>[i]
        BY <3>3, <3>5, <4>1
      <4>3. c = <<Torn>>
        BY <3>2, <4>1, <4>2, SameSequence
      <4> QED
        BY <3>1, <3>5, <4>3 DEF c
    <3> QED
      BY <3>3, <3>4, <3>5
  <2>6. \A t \in Sessions : t # cur => DocumentOf'[t] = DocumentOf[t]
    BY <1>4, <2>3
  <2>7. DocumentOf'[cur] = docs[Len(docs)].content
    BY <2>1, <2>2, <2>3 DEF DocumentOf
  <2>8. DocumentOf' = [DocumentOf EXCEPT ![cur] = docs[Len(docs)].content]
    BY <2>2, <2>6, <2>7 DEF DocumentOf
  <2>9. Lifecycle!Save(cur)
    BY <2>1, <2>4, <2>5, <2>8 DEF Lifecycle!Save
  <2> QED
    BY <2>2, <2>9 DEF Lifecycle!Next
<1>9. ASSUME NEW s \in Sessions, NEW end \in {"failed", "discarded"}, NEW k,
             FinishSession(s, end, None, k), UNCHANGED <<taken, crashes>>,
             rowStatus[s] = "active"
      PROVE  Lifecycle!Next
  <2>1. rowStatus' = [rowStatus EXCEPT ![s] = end]
    BY <1>2, <1>9, Ends
  <2>2. Lifecycle!Drop(s, end)
    BY <1>2, <1>3, <1>9, <2>1, RefinedDrop
  <2> QED
    BY <2>2 DEF Lifecycle!Next
<1>10. CASE FailSession
  <2>1. /\ FinishSession(cur, "failed", None, "save-failed") /\ UNCHANGED <<taken, crashes>>
        /\ pc = "record-failed"
    BY <1>10 DEF FailSession, history
  <2>2. cur \in Sessions /\ rowStatus[cur] = "active"
    BY <1>1, <2>1 DEF OpenIsActive, ControlInv, HeldPoints, EndPoints, Closing
  <2> QED
    BY <1>9, <2>1, <2>2
<1>11. CASE DiscardSession
  <2>1. /\ FinishSession(cur, "discarded", None, "session-discarded") /\ UNCHANGED <<taken, crashes>>
        /\ pc = "record-discarded"
    BY <1>11 DEF DiscardSession, history
  <2>2. cur \in Sessions /\ rowStatus[cur] = "active"
    BY <1>1, <2>1 DEF OpenIsActive, ControlInv, HeldPoints, EndPoints, Closing
  <2> QED
    BY <1>9, <2>1, <2>2
<1>12. ASSUME NEW s \in Sessions, MarkLost(s) PROVE Lifecycle!Next
  <2>1. /\ FinishSession(s, "failed", None, "save-failed") /\ UNCHANGED <<taken, crashes>>
        /\ rowStatus[s] = "active"
    BY <1>12 DEF MarkLost, IsActiveSession, history
  <2> QED
    BY <1>9, <2>1
<1>13. CASE UNCHANGED <<rowStatus, rowOutput, taken>>
  <2>1. LifeOf' = LifeOf
    BY <1>13 DEF LifeOf
  <2>2. DocumentOf' = DocumentOf
    BY <1>4, <1>5, <1>13
  <2>3. CASE crashes' = crashes
    BY <1>13, <2>1, <2>2, <2>3 DEF Lifecycle!vars
  <2>4. CASE Crash
    <3>1. crashes' > 0
      BY <1>1, <2>4, BoundsAssumption DEF Crash, HistoryTypes
    <3>2. Lifecycle!Stop
      BY <1>13, <2>1, <2>2, <3>1 DEF Lifecycle!Stop
    <3> QED
      BY <3>2 DEF Lifecycle!Next
  <2> QED
    BY <2>3, <2>4, StopsAreCounted
<1> QED
  BY <1>6, <1>7, <1>8, <1>10, <1>11, <1>12, <1>13, LifeChanges

\* The manager, its goroutines, its database and its disk implement the life a
\* session is promised, through crashes, restarts and every failure but those
\* of recording it (session.go, store.go).
THEOREM SessionsImplementLifecycle ==
  ASSUME RecordingWorks, EndingWorks
  PROVE  Spec => ImplementsLifecycle
<1> DEFINE Inv == IInv /\ DocumentInv /\ ImageInv /\ LifeInv
<1>1. Init => Inv
  BY InitialInv, InitialDocuments, InitialPages, InitialLife
<1>2. Inv /\ [Next]_vars => Inv'
  <2> SUFFICES ASSUME Inv, [Next]_vars PROVE Inv'
    OBVIOUS
  <2>1. IInv' /\ DocumentInv' /\ LifeInv'
    BY InvStep, DocumentStep, LifeKept DEF EndingWorks
  <2>2. ImageInv'
    BY ImageKept
  <2> QED
    BY <2>1, <2>2
<1>3. Inv /\ [Next]_vars => [Lifecycle!Next]_(Lifecycle!vars)
  <2> SUFFICES ASSUME Inv, [Next]_vars
               PROVE  Lifecycle!Next \/ UNCHANGED Lifecycle!vars
    OBVIOUS
  <2>1. CASE Next
    BY <2>1, RefinedStep DEF DocumentInv, EndingWorks
  <2>2. CASE UNCHANGED vars
    BY <2>2 DEF Lifecycle!vars, LifeOf, DocumentOf, vars, rowVars, diskVars, history
  <2> QED
    BY <2>1, <2>2
<1> QED
  BY <1>1, <1>2, <1>3, RefinedInit, PTL
     DEF Spec, ImplementsLifecycle, Lifecycle!Spec

-----------------------------------------------------------------------------
(* What the state shows of the pages.                                      *)

\* The goroutine of a page has not reported yet.
Showing == Converting \cup {"converted"}

\* The slots stay, or the newest is refreshed.
SameShown ==
    /\ UNCHANGED <<cur, pages, abort, files, jobs>>
    /\ UNCHANGED shown \/ ShowPage(cur, Len(pages))

\* A goroutine that does not touch the slot of its page.
Silent(j) ==
    /\ j.stage \notin Showing /\ UNCHANGED <<cur, pages, abort, files, shown>>
    /\ jobs \ {j} \subseteq jobs'

\* What a step does to the slots of the session in memory.
LEMMA ShownShape ==
  ASSUME ControlInv, SlotTypes, Next,
         \A j \in jobs : /\ ~BeginWriting(j) /\ ~Convert(j) /\ ~ConvertFails(j)
                         /\ ~ReportProcessed(j),
         \A s \in Sessions : ~RecoverSession(s) /\ ~RecoverWithoutPages(s),
         ~MakeWorkDir, ~AppendPage
  PROVE  cur' = None \/ SameShown \/ \E j \in jobs : Silent(j)
<1> USE DEF SameShown, diskVars, memoryVars, jobVars
<1>1. ASSUME NEW a \in Commands, Do(a) PROVE SameShown
  BY <1>1 DEF Do
<1>2. ASSUME ScanStep PROVE SameShown
  BY <1>2
     DEF ScanStep, Scan, CreateSession, CreateSessionFails, MakeWorkDirFails, BeginScan,
         AcquireImage, AcquireImageFails, ScanFailed, AddPage, AddPageFails, RefreshPage
<1>3. ASSUME FinishStep PROVE cur' = None \/ SameShown
  BY <1>3
     DEF FinishStep, FinishNothing, FinishBegin, Merge, MergeFails, FailSession,
         SaveSession, UploadSucceeds, UploadFails, UploadUnrecorded, Upload, CloseSaved,
         DiscardBegin, DiscardSession, CloseDiscarded, ClearSession
<1>4. ASSUME NEW j \in jobs, Process(j) PROVE Silent(j)
  <2>1. UNCHANGED <<cur, pages, abort, files, shown>> /\ j.stage \notin Showing
    BY <1>4 DEF Process, ReportBroken, CountDown, Release, Showing, Converting
  <2>2. jobs \ {j} \subseteq jobs'
    BY <1>4 DEF Process, ReportBroken, CountDown, Release, Advance
  <2> QED
    BY <2>1, <2>2 DEF Silent
<1>5. ASSUME Crash PROVE cur' = None
  BY <1>5 DEF Crash
<1>6. ASSUME Restart PROVE SameShown
  BY <1>6 DEF Restart, RestartIdle, MarkLost
<1> QED
  BY <1>1, <1>2, <1>3, <1>4, <1>5, <1>6 DEF Next

\* A refresh sets one slot, if its page has a size.
LEMMA ShowPageSets ==
  ASSUME SlotTypes, cur # None, NEW p \in Nat, ShowPage(cur, p)
  PROVE  /\ Len(shown') = Len(shown)
         /\ \A i \in 1..Len(shown) :
                /\ i # p => shown'[i] = shown[i]
                /\ i = p => /\ shown'[i] => shown[i] \/ files[cur][i] # Absent
                            /\ files[cur][i] \in Images => shown'[i]
<1>1. shown \in Seq(BOOLEAN) /\ Len(shown) \in Nat
  BY DEF SlotTypes
<1>2. \A k \in Images : k # Absent /\ k # Torn
  BY BoundsAssumption DEF Images, Absent, Torn
<1>3. Torn # Absent
  BY BoundsAssumption DEF Absent, Torn
<1>4. CASE p \in 1..Len(shown)
  <2>1. PICK sized \in Sized(files[cur][p]) : shown' = [shown EXCEPT ![p] = @ \/ sized]
    BY <1>4 DEF ShowPage
  <2>2. sized \in BOOLEAN
    BY <2>1 DEF Sized
  <2>3. sized => files[cur][p] # Absent
    BY <1>3, <2>1 DEF Sized
  <2>4. files[cur][p] \in Images => sized
    BY <1>2, <2>1 DEF Sized
  <2>5. Len(shown') = Len(shown) /\ \A i \in 1..Len(shown) : i # p => shown'[i] = shown[i]
    BY <1>1, <2>1
  <2>6. shown'[p] = (shown[p] \/ sized)
    BY <1>1, <1>4, <2>1
  <2> QED
    BY <2>3, <2>4, <2>5, <2>6
<1>5. CASE p \notin 1..Len(shown)
  BY <1>5 DEF ShowPage
<1> QED
  BY <1>4, <1>5

\* Every slot is right when its goroutine has reported.
LEMMA ShownStep ==
  ASSUME IInv, ShownInv, Next, pc = "down" => RecordingWorks /\ NumberInv
  PROVE  ShownInv'
<1> DEFINE Busy(i) == \E j \in jobs : j.page = i /\ j.stage \in Showing
           Right(i) == /\ shown[i] => files[cur][i] # Absent
                       /\ Busy(i) \/ (files[cur][i] \in Images => shown[i])
           Slots == /\ Len(shown) = Len(pages)
                    /\ ~abort => \A i \in 1..Len(pages) : Right(i)
<1>1. cur # None => Slots
  BY DEF ShownInv, Showing, Reporting
<1>2. SUFFICES ASSUME cur' # None PROVE Slots'
  BY DEF ShownInv, Showing, Reporting
<1>3. /\ SlotTypes /\ ControlInv /\ PendingIsCurrent /\ Len(pages) \in Nat
      /\ NextPage = Len(pages) + 1 /\ cur \in Sessions \cup {None}
      /\ jobs \subseteq Job /\ files \in [Sessions -> [PageNos -> Contents]]
      /\ DatabaseTypes /\ HistoryTypes /\ PageInv
  BY Typed
<1>4. shown \in Seq(BOOLEAN) /\ Len(shown) \in Nat
  BY <1>3 DEF SlotTypes
<1>5. Torn # Absent /\ \A k \in Images : k # Absent /\ k # Torn
  BY BoundsAssumption DEF Images, Absent, Torn
<1>6. CASE SameShown
  <2>1. UNCHANGED <<cur, pages, abort, files, jobs>> /\ cur # None
    BY <1>2, <1>6 DEF SameShown
  <2>2. CASE shown' = shown
    BY <1>1, <2>1, <2>2
  <2>3. CASE ShowPage(cur, Len(pages))
    <3>1. /\ Len(shown') = Len(shown) /\ Len(shown) = Len(pages)
          /\ \A i \in 1..Len(pages) :
                 /\ i # Len(pages) => shown'[i] = shown[i]
                 /\ i = Len(pages) =>
                        /\ shown'[i] => shown[i] \/ files[cur][i] # Absent
                        /\ files[cur][i] \in Images => shown'[i]
      BY <1>1, <1>3, <2>1, <2>3, ShowPageSets
    <3> QED
      BY <1>1, <2>1, <3>1
  <2> QED
    BY <1>6, <2>2, <2>3 DEF SameShown
<1>7. ASSUME NEW j \in jobs, Silent(j) PROVE Slots'
  <2>1. UNCHANGED <<cur, pages, abort, files, shown>> /\ cur # None
    BY <1>2, <1>7 DEF Silent
  <2>2. \A k \in jobs : k.stage \in Showing => k \in jobs'
    BY <1>7 DEF Silent
  <2> QED
    BY <1>1, <2>1, <2>2
<1>8. CASE MakeWorkDir
  <2>1. Len(shown') = 0 /\ Len(pages') = 0
    BY <1>8 DEF MakeWorkDir
  <2> QED
    BY <2>1
<1>9. CASE AppendPage
  <2> DEFINE n == [session |-> cur, page |-> NextPage, image |-> scans, stage |-> "convert"]
  <2>1. /\ pc = "append" /\ UNCHANGED <<cur, abort, files>> /\ cur # None
        /\ pages' = Append(pages, NextPage) /\ shown' = Append(shown, FALSE)
        /\ jobs' = jobs \cup {n}
    BY <1>2, <1>9 DEF AppendPage, diskVars
  <2>2. n.page = NextPage /\ n.stage \in Showing
    BY DEF Showing, Converting
  <2> HIDE DEF n
  <2>3. Len(pages') = NextPage
    BY <1>3, <2>1 DEF SlotTypes
  <2>4. /\ Len(shown') = NextPage /\ shown'[NextPage] = FALSE
        /\ \A i \in 1..Len(pages) : shown'[i] = shown[i]
    <3> DEFINE B == BOOLEAN
               f == FALSE
    <3>1. shown \in Seq(B) /\ f \in B /\ shown' = Append(shown, f)
      BY <1>4, <2>1
    <3>2. Len(shown) = Len(pages)
      BY <1>1, <2>1
    <3>3. f = FALSE
      OBVIOUS
    <3> HIDE DEF B, f
    <3>4. /\ Len(shown') = NextPage /\ shown'[NextPage] = f
          /\ \A i \in 1..Len(pages) : shown'[i] = shown[i]
      BY <1>3, <1>4, <3>1, <3>2
    <3> QED
      BY <3>3, <3>4
  <2>5. \A i \in 1..Len(pages') : i \in 1..Len(pages) \/ i = NextPage
    BY <1>3, <2>3
  <2>6. ~abort => \A i \in 1..Len(pages) : Right(i)'
    BY <1>1, <2>1, <2>4
  <2>7. ASSUME NEW i, i = NextPage PROVE Right(i)'
    <3>1. Busy(i)'
      BY <2>1, <2>2, <2>7
    <3>2. ~shown'[i]
      BY <2>4, <2>7
    <3> QED
      BY <3>1, <3>2
  <2> QED
    BY <2>1, <2>3, <2>4, <2>5, <2>6, <2>7
<1>10. ASSUME NEW j \in jobs, jobs \ {j} \subseteq jobs', UNCHANGED <<cur, pages, abort>>,
              \A i \in PageNos : i # j.page => files'[cur][i] = files[cur][i],
              Len(shown') = Len(shown),
              \A i \in 1..Len(pages) : i # j.page => shown'[i] = shown[i],
              ~abort => \A i \in 1..Len(pages) : i = j.page => Right(i)'
       PROVE  Slots'
  <2>1. cur # None
    BY <1>2, <1>10
  <2>2. Len(pages) <= MaxScans /\ MaxScans \in Nat
    <3>1. scans \in 0..MaxScans /\ MaxScans \in Nat
      BY Typed
    <3> QED
      BY <1>3, <3>1 DEF PageInv
  <2>3. ASSUME ~abort, NEW i \in 1..Len(pages), i # j.page PROVE Right(i)'
    <3>1. i \in PageNos
      BY <1>3, <2>2 DEF PageNos
    <3>2. files'[cur'][i] = files[cur][i] /\ shown'[i] = shown[i]
      BY <1>10, <2>3, <3>1
    <3>3. CASE Busy(i)
      <4>1. Busy(i)'
        BY <1>10, <2>3, <3>3
      <4>2. shown[i] => files[cur][i] # Absent
        BY <1>1, <2>1, <2>3
      <4> QED
        BY <3>2, <4>1, <4>2
    <3>4. CASE ~Busy(i)
      BY <1>1, <2>1, <2>3, <3>2, <3>4
    <3> QED
      BY <3>3, <3>4
  <2> HIDE DEF Right
  <2> QED
    BY <1>1, <1>10, <2>1, <2>3
<1>11. ASSUME NEW j \in jobs
       PROVE  j.session = cur /\ cur \in Sessions /\ j.page \in PageNos
  BY <1>3, <1>11 DEF PendingIsCurrent, Job
<1>12. ASSUME NEW j \in jobs, BeginWriting(j) \/ Convert(j) PROVE Slots'
  <2>1. PICK st \in Showing : Advance(j, st)
    BY <1>12 DEF BeginWriting, Convert, Showing, Converting
  <2>2. PICK c \in {Torn, j.image} : PutFile(j, c)
    BY <1>12 DEF BeginWriting, Convert
  <2>3. UNCHANGED <<cur, pages, abort, shown>>
    BY <1>12 DEF BeginWriting, Convert, memoryVars
  <2>4. \A i \in PageNos : i # j.page => files'[cur][i] = files[cur][i]
    BY <1>3, <1>11, <2>2 DEF PutFile
  <2>5. files'[cur][j.page] # Absent
    <3>1. files'[cur][j.page] = c /\ j.image \in Images
      BY <1>3, <1>11, <2>2 DEF Job, PutFile
    <3> QED
      BY <1>5, <2>2, <3>1
  <2>6. Busy(j.page)' /\ jobs \ {j} \subseteq jobs'
    <3> DEFINE b == [j EXCEPT !.stage = st]
    <3>1. b.page = j.page /\ b.stage \in Showing
      BY <1>3, <2>1 DEF Job
    <3>2. jobs' = (jobs \ {j}) \cup {b}
      BY <2>1 DEF Advance
    <3> HIDE DEF b
    <3> QED
      BY <3>1, <3>2
  <2> QED
    BY <1>10, <2>3, <2>4, <2>5, <2>6
<1>13. ASSUME NEW j \in jobs, ConvertFails(j) PROVE Slots'
  <2>1. abort' /\ UNCHANGED <<cur, pages, shown>>
    BY <1>11, <1>13 DEF ConvertFails
  <2> QED
    BY <1>1, <1>2, <2>1
<1>14. ASSUME NEW j \in jobs, ReportProcessed(j) PROVE Slots'
  <2>1. /\ jobs \ {j} \subseteq jobs' /\ UNCHANGED <<cur, pages, abort, files>>
        /\ ShowPage(cur, j.page) /\ cur # None /\ j.page \in Nat
    BY <1>2, <1>11, <1>14 DEF ReportProcessed, Advance, diskVars, memoryVars, PageNos
  <2>2. /\ Len(shown') = Len(shown) /\ Len(shown) = Len(pages)
        /\ \A i \in 1..Len(pages) :
               /\ i # j.page => shown'[i] = shown[i]
               /\ i = j.page => /\ shown'[i] => shown[i] \/ files[cur][i] # Absent
                                /\ files[cur][i] \in Images => shown'[i]
    BY <1>1, <1>3, <2>1, ShowPageSets
  <2>3. ~abort => \A i \in 1..Len(pages) : i = j.page => Right(i)'
    BY <1>1, <2>1, <2>2
  <2> QED
    BY <1>10, <2>1, <2>2, <2>3
<1>15. ASSUME NEW s \in Sessions, RecoverSession(s) PROVE Slots'
  <2>1. PICK n \in 0..MaxScans :
            /\ n \in Nat /\ Len(pages') = n /\ \A i \in 1..n : pages'[i] = i
            /\ cur' = s /\ files' = files
    <3>1. NumberInv
      BY <1>15 DEF RecoverSession, Resume
    <3> QED
      BY <1>3, <1>15, <3>1, Recovered
  <2>2. PICK q : /\ pages' = q /\ shown' \in [1..Len(q) -> BOOLEAN]
                 /\ \A i \in 1..Len(q) : shown'[i] \in Sized(files[s][q[i]])
    BY <1>15 DEF RecoverSession, Resume
  <2>3. Len(shown') = n
    BY <2>1, <2>2
  <2>4. \A i \in 1..n : shown'[i] \in Sized(files[s][i])
    BY <2>1, <2>2
  <2>5. \A i \in 1..n : /\ shown'[i] => files[s][i] # Absent
                        /\ files[s][i] \in Images => shown'[i]
    BY <1>5, <2>4 DEF Sized
  <2> QED
    BY <2>1, <2>3, <2>5
<1>16. ASSUME NEW s \in Sessions, RecoverWithoutPages(s) PROVE FALSE
  BY <1>16, NoFault DEF RecoverWithoutPages, Resume
<1> HIDE DEF Slots
<1> QED
  BY <1>2, <1>3, <1>6, <1>7, <1>8, <1>9, <1>12, <1>13, <1>14, <1>15, <1>16, ShownShape

\* The slots are about the files of the pages.
LEMMA ShownIsRight ==
  ASSUME ShownInv, cur # None, \A i \in 1..Len(pages) : pages[i] = i
  PROVE  ShownMatchesDisk
BY DEF ShownInv, ShownMatchesDisk

\* Once a page's goroutine has reported, and after a restart, the state shows the
\* page if its file is there as a whole, and only if there is a file (session.go:
\* updatePageResult, recover), whatever size the file had when somebody looked at
\* it while it was written, unless the session was aborted; if pages are recorded
\* and loaded.
THEOREM ShownPagesAreOnDisk ==
  ASSUME RecordingWorks
  PROVE  Spec => []ShownMatchesDisk
<1> DEFINE Inv == IInv /\ ImageInv /\ DocumentInv /\ ShownInv
<1>1. Init => Inv
  <2>1. Init => ShownInv
    BY DEF Init, ShownInv
  <2> QED
    BY <2>1, InitialInv, InitialDocuments, InitialPages
<1>2. Inv /\ [Next]_vars => Inv'
  <2> SUFFICES ASSUME Inv, [Next]_vars PROVE ShownInv'
    BY InvStep, ImageKept, DocumentStep
  <2>1. CASE Next
    BY <2>1, ShownStep DEF DocumentInv
  <2>2. CASE UNCHANGED vars
    BY <2>2 DEF ShownInv, Reporting, vars, diskVars, memoryVars, jobVars
  <2> QED
    BY <2>1, <2>2
<1>3. Inv => ShownMatchesDisk
  <2> SUFFICES ASSUME Inv, cur # None PROVE ShownMatchesDisk
    BY DEF ShownMatchesDisk
  <2>1. \A i \in 1..Len(pages) : pages[i] = i
    BY DEF DocumentInv, NumberInv
  <2> QED
    BY <2>1, ShownIsRight
<1> QED
  BY <1>1, <1>2, <1>3, PTL DEF Spec
=============================================================================
