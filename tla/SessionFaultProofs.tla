-------------------------- MODULE SessionFaultProofs --------------------------
(***************************************************************************)
(* Proofs about sessions when anything may fail: what holds whatever fails *)
(* and whenever the daemon stops, and what holds, with far fewer failures  *)
(* excluded than SessionDocumentProofs does, until it is first stopped.    *)
(***************************************************************************)
EXTENDS SessionDocumentProofs

(* Pages until the first stop.                                             *)

\* The session in memory and its files stay as they are ...
SameScratch ==
    /\ UNCHANGED <<taken, lastId, files, cur, pages, abort, converted>>
    /\ pc' = pc \/ {pc, pc'} \cap {"down", "mkdir"} = {}

\* ... or the session is no longer there.
Cleared ==
    /\ UNCHANGED <<taken, lastId, jobs>> /\ cur' = None
    /\ files' = files \/ files' = [files EXCEPT ![cur] = NoFiles]
    /\ pc' \notin {"down", "mkdir"} /\ pc # "mkdir"

\* A daemon that was not stopped was not stopped before.
LEMMA NotStopped ==
  ASSUME HistoryTypes, Next, crashes' = 0
  PROVE  crashes = 0 /\ ~Crash /\ (pc' = "down" => pc = "down")
<1>1. crashes \in Nat
  BY BoundsAssumption DEF HistoryTypes
<1>2. Crash => crashes' = crashes + 1
  BY DEF Crash
<1> QED
  BY <1>1, <1>2, StopsAreCounted

\* What a step does to the session in memory and its scratch directory.
LEMMA ScratchStep ==
  ASSUME Next, pc # "down", pc' # "down",
         ~CreateSession, ~MakeWorkDir, ~AppendPage,
         \A j \in jobs : ~BeginWriting(j) /\ ~Convert(j) /\ ~ConvertFails(j)
  PROVE  \/ SameScratch /\ jobs' = jobs
         \/ SameScratch /\ \E j \in jobs : Pass(j)
         \/ Cleared
<1> USE DEF SameScratch, Cleared, rowVars, diskVars, memoryVars, jobVars, history, Goto,
            Return
<1>1. ASSUME NEW a \in Commands, Do(a) PROVE SameScratch /\ jobs' = jobs
  BY <1>1 DEF Do, EntryPoint
<1>2. ASSUME ScanStep PROVE (SameScratch /\ jobs' = jobs) \/ Cleared
  BY <1>2
     DEF ScanStep, Scan, CreateSessionFails, MakeWorkDirFails, BeginScan, AcquireImage,
         AcquireImageFails, ScanFailed, AddPage, AddPageFails, RefreshPage
<1>3. ASSUME FinishStep PROVE (SameScratch /\ jobs' = jobs) \/ Cleared
  BY <1>3
     DEF FinishStep, FinishNothing, FinishBegin, Merge, MergeFails, FailSession,
         SaveSession, UploadSucceeds, UploadFails, UploadUnrecorded, Upload, CloseSaved,
         DiscardBegin, DiscardSession, CloseDiscarded, ClearSession, FinishSession,
         RemoveWork, NoFiles
<1>4. ASSUME NEW j \in jobs, Process(j)
      PROVE  SameScratch /\ Pass(j)
  <2>1. SameScratch /\ UNCHANGED rowPages
    BY <1>4 DEF Process, ReportProcessed, ReportBroken, CountDown, Release
  <2>2. jobs' = jobs \ {j} \/ \E st \in {"count", "release"} : Advance(j, st)
    BY <1>4 DEF Process, ReportProcessed, ReportBroken, CountDown, Release
  <2>3. pc' = pc /\ j.stage \notin Converting
    BY <1>4 DEF Process, ReportProcessed, ReportBroken, CountDown, Release, Converting
  <2> QED
    BY <2>1, <2>2, <2>3 DEF Pass, pageVars
<1>5. ASSUME Crash PROVE FALSE
  BY <1>5 DEF Crash
<1>6. ~Restart
  BY DEF Restart, RestartIdle, RecoverSession, RecoverWithoutPages, Resume, MarkLost
<1> QED
  BY <1>1, <1>2, <1>3, <1>4, <1>5, <1>6 DEF Next

\* What is acknowledged into a session that was not opened yet: nothing.
FreshTaken == \A s \in Sessions :
    lastId < s \/ (pc = "mkdir" /\ s = lastId) => taken[s] = << >>

\* Sessions are opened without pages.
LEMMA FreshTakenStep ==
  ASSUME IInv, FreshTaken, Next
  PROVE  FreshTaken'
<1>1. /\ ControlInv /\ FreshInv /\ OpenIsActive /\ lastId \in Nat
      /\ cur \in Sessions \cup {None} /\ taken \in [Sessions -> Seq(Images)]
  BY Typed
<1>2. CASE CreateSession
  <2>1. lastId' = lastId + 1 /\ taken' = taken
    BY <1>2 DEF CreateSession, history
  <2>2. \A s \in Sessions : lastId' < s \/ s = lastId' => lastId < s
    BY <1>1, <2>1 DEF Sessions
  <2> QED
    BY <2>1, <2>2 DEF FreshTaken
<1>3. CASE AppendPage
  <2>1. /\ pc = "append" /\ pc' = "refresh" /\ lastId' = lastId
        /\ taken' = [taken EXCEPT ![cur] = Append(@, scans)]
    BY <1>3 DEF AppendPage, Goto, rowVars
  <2>2. cur \in Sessions /\ ~(lastId < cur)
    BY <1>1, <2>1 DEF ControlInv, HeldPoints, OpenIsActive, FreshInv, Closing
  <2> QED
    BY <1>1, <2>1, <2>2 DEF FreshTaken
<1>4. ASSUME ~CreateSession, ~AppendPage PROVE FreshTaken'
  <2> USE <1>4 DEF rowVars, history, Goto, Return
  <2> DEFINE Old == UNCHANGED <<taken, lastId>> /\ (pc' = "mkdir" => pc = "mkdir")
  <2>1. ASSUME NEW a \in Commands, Do(a) PROVE Old
    BY <2>1 DEF Do, EntryPoint
  <2>2. ASSUME ScanStep PROVE Old
    BY <2>2
       DEF ScanStep, Scan, CreateSessionFails, MakeWorkDir, MakeWorkDirFails, BeginScan,
           AcquireImage, AcquireImageFails, ScanFailed, AddPage, AddPageFails, RefreshPage
  <2>3. ASSUME FinishStep PROVE Old
    BY <2>3
       DEF FinishStep, FinishNothing, FinishBegin, Merge, MergeFails, FailSession,
           SaveSession, UploadSucceeds, UploadFails, UploadUnrecorded, Upload,
           CloseSaved, DiscardBegin, DiscardSession, CloseDiscarded, FinishSession
  <2>4. ASSUME NEW j \in jobs, Process(j) PROVE Old
    BY <2>4 DEF Process, BeginWriting, Convert, ConvertFails, ReportProcessed, ReportBroken,
                CountDown, Release
  <2>5. ASSUME Crash PROVE Old
    BY <2>5 DEF Crash
  <2>6. ASSUME Restart PROVE Old
    BY <2>6
       DEF Restart, RestartIdle, RecoverSession, RecoverWithoutPages, Resume, MarkLost,
           FinishSession
  <2>7. Old
    BY <2>1, <2>2, <2>3, <2>4, <2>5, <2>6 DEF Next
  <2> QED
    BY <2>7 DEF FreshTaken
<1> QED
  BY <1>2, <1>3, <1>4

\* Pages and goroutines match, and every page is on disk or being written.
LEMMA BackedStep ==
  ASSUME IInv, FreshTaken, MatchedInv, BackedInv, Next
  PROVE  MatchedInv' /\ BackedInv'
<1> DEFINE Matched == cur # None =>
                /\ Len(pages) = Len(taken[cur])
                /\ \A j \in jobs :
                       j.page \in 1..Len(pages) /\ j.image = taken[cur][j.page]
                /\ \A j, k \in jobs : j.page = k.page => j = k
           Backed == cur # None /\ ~abort =>
                \A i \in 1..Len(taken[cur]) :
                    \/ files[cur][i] = taken[cur][i]
                    \/ \E j \in jobs : j.page = i /\ j.stage \in Converting
<1>1. /\ SlotTypes /\ ControlInv /\ FreshInv /\ PendingIsCurrent /\ PageInv
      /\ HistoryTypes /\ Len(pages) \in Nat /\ NextPage = Len(pages) + 1
      /\ cur \in Sessions \cup {None} /\ jobs \subseteq Job
      /\ taken \in [Sessions -> Seq(Images)]
      /\ files \in [Sessions -> [PageNos -> Contents]]
      /\ (cur = None => jobs = {}) /\ MaxScans \in Nat
  BY Typed
<1>2. crashes \in Nat /\ scans \in 0..MaxScans
  BY <1>1, BoundsAssumption DEF HistoryTypes
<1>3. pc' = "down" => crashes' > 0
  <2>1. Crash => crashes' > 0
    BY <1>2 DEF Crash
  <2> QED
    BY <2>1, StopsAreCounted DEF MatchedInv
<1>5. CASE crashes' # 0
  BY <1>3, <1>5 DEF MatchedInv, BackedInv
<1>6. CASE crashes' = 0
  <2>1. crashes = 0 /\ pc # "down" /\ pc' # "down"
    BY <1>1, <1>3, <1>6, NotStopped DEF MatchedInv
  <2>2. Matched /\ Backed
    BY <2>1 DEF MatchedInv, BackedInv
  <2>3. SUFFICES Matched' /\ Backed'
    BY <1>3 DEF MatchedInv, BackedInv
  <2> HIDE DEF Matched, Backed
  <2>4. CASE SameScratch /\ jobs' = jobs
    BY <2>2, <2>4 DEF SameScratch, Matched, Backed
  <2>5. ASSUME SameScratch, NEW j \in jobs, Pass(j) PROVE Matched' /\ Backed'
    <3>1. PICK a : /\ jobs' \subseteq (jobs \ {j}) \cup {a} /\ jobs \ {j} \subseteq jobs'
                   /\ a.page = j.page /\ a.image = j.image
      BY <1>1, <2>5, MovesOn DEF Goes
    <3>2. j.stage \notin Converting
      BY <2>5 DEF Pass
    <3>3. UNCHANGED <<cur, pages, taken, files, abort>>
      BY <2>5 DEF SameScratch
    <3>4. Matched'
      BY <2>2, <2>5, <3>1, <3>3 DEF Matched
    <3>5. Backed'
      BY <2>2, <3>1, <3>2, <3>3 DEF Backed
    <3> QED
      BY <3>4, <3>5
  <2>6. CASE cur' = None
    BY <2>6 DEF Matched, Backed
  <2>7. CASE MakeWorkDir
    <3>1. /\ pc = "mkdir" /\ cur = None /\ cur' = lastId /\ pages' = << >>
          /\ UNCHANGED <<taken, jobs>>
      BY <1>1, <2>7 DEF MakeWorkDir, ControlInv, history
    <3>2. taken[lastId] = << >> /\ jobs' = {}
      BY <1>1, <3>1 DEF FreshTaken, FreshInv
    <3> QED
      BY <3>1, <3>2 DEF Matched, Backed
  <2>8. CASE AppendPage
    <3> DEFINE n == [session |-> cur, page |-> NextPage, image |-> scans,
                     stage |-> "convert"]
    <3>1. /\ pc = "append" /\ UNCHANGED <<cur, files, abort>>
          /\ pages' = Append(pages, NextPage) /\ jobs' = jobs \cup {n}
          /\ taken' = [taken EXCEPT ![cur] = Append(@, scans)]
      BY <2>8 DEF AppendPage, diskVars
    <3>2. cur \in Sessions /\ cur # None
      BY <1>1, <3>1 DEF ControlInv, HeldPoints
    <3>3. n.page = NextPage /\ n.image = scans /\ n.stage = "convert"
      OBVIOUS
    <3> HIDE DEF n
    <3>4. taken'[cur] = Append(taken[cur], scans) /\ taken[cur] \in Seq(Images)
      BY <1>1, <3>1, <3>2
    <3>5. Len(taken[cur]) = Len(pages)
      BY <2>2, <3>2 DEF Matched
    <3>6. /\ Len(taken'[cur]) = NextPage /\ taken'[cur][NextPage] = scans
          /\ \A i \in 1..Len(pages) : taken'[cur][i] = taken[cur][i]
      BY <1>1, <3>4, <3>5
    <3>7. Len(pages') = NextPage
      BY <1>1, <3>1 DEF SlotTypes
    <3>8. \A j \in jobs : j.page \in 1..Len(pages) /\ j.image = taken[cur][j.page]
      BY <2>2, <3>2 DEF Matched
    <3>9. \A j \in jobs : /\ j.page \in 1..NextPage /\ j.page # NextPage
                          /\ j.image = taken'[cur][j.page]
      BY <1>1, <3>6, <3>8
    <3>10. NextPage \in 1..NextPage
      BY <1>1
    <3>11. \A j, k \in jobs' : j.page = k.page => j = k
      BY <2>2, <3>1, <3>2, <3>3, <3>9 DEF Matched
    <3>12. Matched'
      BY <3>1, <3>3, <3>6, <3>7, <3>9, <3>10, <3>11 DEF Matched
    <3>13. ASSUME NEW i \in 1..NextPage, ~abort
           PROVE  \/ files[cur][i] = taken'[cur][i]
                  \/ \E j \in jobs' : j.page = i /\ j.stage \in Converting
      <4>1. CASE i = NextPage
        BY <3>1, <3>3, <4>1 DEF Converting
      <4>2. CASE i # NextPage
        <5>1. i \in 1..Len(pages)
          BY <1>1, <3>13, <4>2
        <5> QED
          BY <2>2, <3>1, <3>2, <3>5, <3>6, <3>13, <5>1 DEF Backed
      <4> QED
        BY <4>1, <4>2
    <3>14. Backed'
      BY <3>1, <3>6, <3>13 DEF Backed
    <3> QED
      BY <3>12, <3>14
  <2>9. ASSUME NEW j \in jobs, BeginWriting(j) \/ Convert(j) \/ ConvertFails(j)
        PROVE  Matched' /\ Backed'
    <3>1. PICK a : /\ jobs' \subseteq (jobs \ {j}) \cup {a} /\ jobs \ {j} \subseteq jobs'
                   /\ a.page = j.page /\ a.image = j.image
                   /\ BeginWriting(j) => a \in jobs' /\ a.stage = "write"
      BY <1>1, <2>9, MovesOn DEF Goes
    <3>2. /\ UNCHANGED <<cur, pages, taken>>
          /\ UNCHANGED files \/ \E c : PutFile(j, c)
      BY <2>9, WritesOwn DEF Goes
    <3>3. abort' = abort \/ (ConvertFails(j) /\ abort' = (abort \/ cur = j.session))
      BY <2>9 DEF BeginWriting, Convert, ConvertFails, memoryVars
    <3>4. /\ j.session = cur /\ cur \in Sessions /\ cur # None /\ j.page \in PageNos
      BY <1>1 DEF PendingIsCurrent, Job, Sessions, None
    <3>5. j.image = taken[cur][j.page] /\ Len(taken[cur]) = Len(pages)
      BY <2>2, <3>4 DEF Matched
    <3>6. Matched'
      BY <2>2, <3>1, <3>2 DEF Matched
    <3>7. ASSUME NEW i \in 1..Len(taken[cur]), i # j.page
          PROVE  files'[cur][i] = files[cur][i]
      <4>1. ASSUME NEW c, PutFile(j, c) PROVE files'[cur][i] = files[cur][i]
        BY <1>1, <3>4, <3>7, <4>1 DEF PutFile
      <4> QED
        BY <3>2, <4>1
    <3>8. ASSUME NEW i \in 1..Len(taken[cur]), ~abort'
          PROVE  \/ files'[cur][i] = taken[cur][i]
                 \/ \E k \in jobs' : k.page = i /\ k.stage \in Converting
      <4>1. ~ConvertFails(j) /\ ~abort
        <5>1. ConvertFails(j) => abort' = (abort \/ cur = j.session)
          BY DEF ConvertFails
        <5>2. ~ConvertFails(j)
          BY <3>4, <3>8, <5>1
        <5> QED
          BY <3>3, <3>8, <5>2
      <4>2. CASE i = j.page /\ BeginWriting(j)
        BY <3>1, <4>2 DEF Converting
      <4>3. CASE i = j.page /\ Convert(j)
        <5>1. files' = [files EXCEPT ![j.session][j.page] = j.image]
          BY <4>3 DEF Convert, PutFile
        <5> QED
          BY <1>1, <3>4, <3>5, <4>3, <5>1
      <4>4. CASE i # j.page
        BY <2>2, <3>1, <3>4, <3>7, <4>1, <4>4 DEF Backed
      <4> QED
        BY <2>9, <4>1, <4>2, <4>3, <4>4
    <3>9. Backed'
      BY <3>2, <3>8 DEF Backed
    <3> QED
      BY <3>6, <3>9
  <2>11. CreateSession => cur' = None
    BY <1>1 DEF CreateSession, ControlInv, memoryVars
  <2> QED
    BY <2>1, <2>4, <2>5, <2>6, <2>7, <2>8, <2>9, <2>11, ScratchStep
       DEF Cleared
<1> QED
  BY <1>5, <1>6

\* Until the daemon is stopped, each page acknowledged into an open session that
\* is not aborted is on disk or being written, whatever fails otherwise
\* (session.go: scan, processPage, finish).
THEOREM PagesAreBackedUntilStop == Spec => []BackedUntilStop
<1> DEFINE Inv == IInv /\ FreshTaken /\ MatchedInv /\ BackedInv
<1>1. Init => Inv
  <2> SUFFICES ASSUME Init PROVE FreshTaken /\ MatchedInv /\ BackedInv
    BY InitialInv
  <2>1. (\A s \in Sessions : taken[s] = << >>) /\ cur = None /\ pc = "ready"
    BY DEF Init
  <2> QED
    BY <2>1 DEF FreshTaken, MatchedInv, BackedInv
<1>2. Inv /\ [Next]_vars => Inv'
  <2> SUFFICES ASSUME Inv, [Next]_vars PROVE Inv'
    OBVIOUS
  <2>1. IInv'
    BY InvStep
  <2>2. CASE Next
    BY <2>1, <2>2, FreshTakenStep, BackedStep
  <2>3. CASE UNCHANGED vars
    BY <2>1, <2>3
       DEF FreshTaken, MatchedInv, BackedInv, vars, rowVars, diskVars, memoryVars,
           jobVars, history
  <2> QED
    BY <2>2, <2>3
<1>3. Inv => BackedUntilStop
  <2> SUFFICES ASSUME Inv, crashes = 0, cur # None, ~abort,
                      NEW i \in 1..Len(taken[cur])
               PROVE  \/ InFiles(cur, taken[cur][i])
                      \/ \E j \in jobs : /\ j.image = taken[cur][i]
                                           /\ j.stage \in Converting
    BY DEF BackedUntilStop, PagesBacked
  <2>1. CASE files[cur][i] = taken[cur][i]
    <3>1. i \in PageNos
      <4>1. /\ Len(pages) = Len(taken[cur]) /\ Len(pages) <= scans
            /\ Len(pages) \in Nat /\ scans \in 0..MaxScans /\ MaxScans \in Nat
        BY Typed DEF MatchedInv, PageInv
      <4> QED
        BY <4>1 DEF PageNos
    <3> QED
      BY <2>1, <3>1 DEF InFiles
  <2>2. ASSUME NEW j \in jobs, j.page = i, j.stage \in Converting
        PROVE  j.image = taken[cur][i]
    BY <2>2 DEF MatchedInv
  <2> QED
    BY <2>1, <2>2 DEF BackedInv
<1> QED
  BY <1>1, <1>2, <1>3, PTL DEF Spec

\* A merged document waits for nothing but its record.
LEMMA NamingStep ==
  ASSUME Next, pc = "record-saved", ~SaveSession, ~Crash
  PROVE  UNCHANGED <<pc, cur, docs>>
<1> USE DEF diskVars, memoryVars
<1>1. ASSUME NEW a \in Commands, Do(a) PROVE FALSE
  BY <1>1 DEF Do
<1>2. ASSUME ScanStep PROVE FALSE
  BY <1>2
     DEF ScanStep, Scan, CreateSession, CreateSessionFails, MakeWorkDir, MakeWorkDirFails,
         BeginScan, AcquireImage, AcquireImageFails, ScanFailed, AddPage, AddPageFails, AppendPage,
         RefreshPage
<1>3. ASSUME FinishStep PROVE FALSE
  BY <1>3
     DEF FinishStep, FinishNothing, FinishBegin, Merge, MergeFails, FailSession,
         UploadSucceeds, UploadFails, UploadUnrecorded, Upload, CloseSaved, DiscardBegin,
         DiscardSession, CloseDiscarded
<1>4. ASSUME NEW j \in jobs, Process(j) PROVE UNCHANGED <<pc, cur, docs>>
  BY <1>4
     DEF Process, BeginWriting, Convert, ConvertFails, ReportProcessed, ReportBroken, CountDown,
              Release
<1>5. ASSUME Restart PROVE FALSE
  BY <1>5
     DEF Restart, RestartIdle, RecoverSession, RecoverWithoutPages, Resume, MarkLost
<1> QED
  BY <1>1, <1>2, <1>3, <1>4, <1>5 DEF Next

\* Merging is the one step that adds a document, but for a torn merge.
LEMMA OnlyMerge ==
  ASSUME Next, ~Merge, ~Crash
  PROVE  docs' = docs
<1> USE DEF diskVars
<1>1. ASSUME NEW a \in Commands, Do(a) PROVE docs' = docs
  BY <1>1 DEF Do
<1>2. ASSUME ScanStep PROVE docs' = docs
  BY <1>2
     DEF ScanStep, Scan, CreateSession, CreateSessionFails, MakeWorkDir, MakeWorkDirFails,
         BeginScan, AcquireImage, AcquireImageFails, ScanFailed, AddPage, AddPageFails, AppendPage,
         RefreshPage
<1>3. ASSUME FinishStep PROVE docs' = docs
  BY <1>3
     DEF FinishStep, FinishNothing, FinishBegin, MergeFails, FailSession, SaveSession,
         UploadSucceeds, UploadFails, UploadUnrecorded, Upload, CloseSaved, DiscardBegin,
         DiscardSession, CloseDiscarded
<1>4. ASSUME NEW j \in jobs, Process(j) PROVE docs' = docs
  BY <1>4
     DEF Process, BeginWriting, Convert, ConvertFails, ReportProcessed, ReportBroken, CountDown,
              Release
<1>5. ASSUME Restart PROVE docs' = docs
  BY <1>5
     DEF Restart, RestartIdle, RecoverSession, RecoverWithoutPages, Resume, MarkLost
<1> QED
  BY <1>1, <1>2, <1>3, <1>4, <1>5 DEF Next

\* The record follows the merge.
LEMMA NamedStep ==
  ASSUME "finish" \notin Faults, IInv, NamedInv, Next
  PROVE  NamedInv'
<1> DEFINE Named(d) == /\ rowStatus[docs[d].session] = "saved"
                       /\ rowOutput[docs[d].session] = d
<1>1. SUFFICES ASSUME crashes' = 0, NEW d \in 1..Len(docs')
               PROVE  \/ Named(d)'
                      \/ pc' = "record-saved" /\ d = Len(docs') /\ docs'[d].session = cur'
  BY DEF NamedInv
<1>2. /\ SlotTypes /\ ControlInv /\ OpenIsActive /\ RoomInv /\ FreshInv
      /\ MemoryTypes
      /\ cur \in Sessions \cup {None} /\ DatabaseTypes /\ HistoryTypes /\ DiskTypes
  BY Typed
<1>3. docs \in Seq([session : Sessions, content : Seq(Contents)]) /\ crashes \in Nat
  BY <1>2, BoundsAssumption DEF DiskTypes, HistoryTypes
<1>4. RowTypes
  BY <1>2 DEF RowTypes, DatabaseTypes
<1>5. RowsKept /\ Len(docs) \in Nat
  BY <1>2, <1>3, <1>4, RowsKeptStep
<1>6. crashes = 0 /\ ~Crash
  BY <1>1, <1>2, NotStopped
<1>7. \A e \in 1..Len(docs) : docs[e].session \in Sessions
  <2> DEFINE D == [session : Sessions, content : Seq(Contents)]
  <2>1. \A x \in D : x.session \in Sessions
    OBVIOUS
  <2> HIDE DEF D
  <2>2. docs \in Seq(D)
    BY <1>3 DEF D
  <2>3. \A e \in 1..Len(docs) : docs[e] \in D
    BY <2>2
  <2> QED
    BY <2>1, <2>3
<1>8. ASSUME NEW e \in 1..Len(docs), Named(e), docs'[e] = docs[e] PROVE Named(e)'
  BY <1>5, <1>7, <1>8 DEF RowsKept, Terminal
<1>9. CASE Merge
  <2>1. /\ pc = "merge" /\ pc' = "record-saved" /\ cur' = cur
        /\ docs' = Append(docs, Document(cur, PageContents))
    BY <1>9 DEF Merge, Goto, memoryVars
  <2> DEFINE n == Document(cur, PageContents)
  <2>2. n.session = cur
    BY DEF Document
  <2> HIDE DEF n
  <2>3. /\ Len(docs') = Len(docs) + 1 /\ docs'[Len(docs) + 1] = n
        /\ \A e \in 1..Len(docs) : docs'[e] = docs[e]
    BY <1>3, <1>5, <2>1 DEF n
  <2>4. CASE d \in 1..Len(docs)
    BY <1>6, <1>8, <2>1, <2>3, <2>4 DEF NamedInv
  <2>5. CASE d \notin 1..Len(docs)
    <3>1. d = Len(docs) + 1
      BY <1>1, <1>5, <2>3, <2>5
    <3> QED
      BY <2>1, <2>2, <2>3, <3>1
  <2> QED
    BY <2>4, <2>5
<1>10. CASE SaveSession
  <2>1. /\ pc = "record-saved" /\ docs' = docs
        /\ FinishSession(cur, "saved", Len(docs), "session-saved")
    BY <1>10 DEF SaveSession, diskVars
  <2>2. cur \in Sessions
    BY <1>2, <2>1 DEF ControlInv, HeldPoints, EndPoints
  <2>3. rowStatus'[cur] = "saved" /\ rowOutput'[cur] = Len(docs)
    BY <1>4, <2>1, <2>2 DEF FinishSession, Fault, RowTypes
  <2> QED
    BY <1>1, <1>6, <1>8, <2>1, <2>3 DEF NamedInv
<1>11. CASE ~Merge /\ ~SaveSession
  <2>1. docs' = docs
    BY <1>6, <1>11, OnlyMerge
  <2>2. pc = "record-saved" => UNCHANGED <<pc, cur>>
    BY <1>6, <1>11, NamingStep
  <2> QED
    BY <1>1, <1>6, <1>8, <2>1, <2>2 DEF NamedInv
<1> QED
  BY <1>9, <1>10, <1>11

\* Until the daemon is stopped, every document is named by the row of a saved
\* session whenever no action runs (session.go: finish; merge.go), if the ends of
\* sessions are recorded.
THEOREM NoDocumentIsStray ==
  ASSUME "finish" \notin Faults
  PROVE  Spec => []NoStrayDocument
<1>1. Init => IInv /\ NamedInv
  <2> SUFFICES ASSUME Init PROVE NamedInv
    BY InitialInv
  <2>1. Len(docs) = 0
    BY DEF Init
  <2> QED
    BY <2>1 DEF NamedInv
<1>2. IInv /\ NamedInv /\ [Next]_vars => IInv' /\ NamedInv'
  <2> SUFFICES ASSUME IInv, NamedInv, [Next]_vars PROVE NamedInv'
    BY InvStep
  <2>1. CASE UNCHANGED vars
    BY <2>1 DEF NamedInv, vars, rowVars, diskVars, memoryVars
  <2> QED
    BY <2>1, NamedStep
<1>3. NamedInv => NoStrayDocument
  BY DEF NamedInv, NoStrayDocument
<1> QED
  BY <1>1, <1>2, <1>3, PTL DEF Spec

\* The file of a page holds that page, or is still to be written.
LEMMA FilledStep ==
  ASSUME IInv, FreshTaken, MatchedInv, FilledInv, Next
  PROVE  FilledInv'
<1> DEFINE Fresh == \A s \in Sessions : lastId < s \/ (pc = "mkdir" /\ s = lastId) =>
                        \A p \in PageNos : files[s][p] = Absent
           Ordered == \A i \in 1..Len(pages) : pages[i] = i
           Right == \A p \in PageNos :
                        \/ files[cur][p] = Absent
                        \/ /\ p <= Len(taken[cur])
                           /\ files[cur][p] \in {Torn, taken[cur][p]}
           Empty == \A j \in jobs :
                        /\ j.stage = "convert" => files[cur][j.page] = Absent
                        /\ j.stage = "write" => files[cur][j.page] = Torn
           Held == cur # None => Ordered /\ Right /\ Empty
<1>1. SUFFICES ASSUME crashes' = 0 PROVE Fresh' /\ Held'
  BY DEF FilledInv
<1>2. /\ SlotTypes /\ ControlInv /\ FreshInv /\ OpenIsActive /\ PendingIsCurrent
      /\ JobInv /\ PageInv /\ HistoryTypes /\ Len(pages) \in Nat
      /\ NextPage = Len(pages) + 1
      /\ cur \in Sessions \cup {None} /\ jobs \subseteq Job /\ lastId \in Nat
      /\ taken \in [Sessions -> Seq(Images)]
      /\ files \in [Sessions -> [PageNos -> Contents]]
      /\ (cur = None => jobs = {}) /\ MaxScans \in Nat /\ scans \in 0..MaxScans
  BY Typed
<1>3. crashes \in Nat
  BY <1>2, BoundsAssumption DEF HistoryTypes
<1>4. crashes = 0 /\ pc # "down" /\ pc' # "down"
  BY <1>1, <1>2, NotStopped DEF MatchedInv
<1>5. Fresh /\ Held
  BY <1>4 DEF FilledInv
<1>6. cur # None => /\ Len(pages) = Len(taken[cur])
                    /\ \A j \in jobs : /\ j.page \in 1..Len(pages)
                                       /\ j.image = taken[cur][j.page]
                    /\ \A j, k \in jobs : j.page = k.page => j = k
  BY <1>4 DEF MatchedInv
<1>7. cur # None /\ pc \notin EndPoints => ~(lastId < cur) /\ pc # "mkdir"
  BY <1>2 DEF OpenIsActive, FreshInv, Closing, EndPoints, ControlInv, Sessions, None
<1> HIDE DEF Fresh, Held
<1>8. ASSUME UNCHANGED <<taken, lastId, files, cur, pages>>,
             pc' = "mkdir" => pc = "mkdir",
             \A k \in jobs' : k.stage \in Converting => k \in jobs
      PROVE  Fresh' /\ Held'
  BY <1>5, <1>8 DEF Fresh, Held, Converting
<1>9. CASE SameScratch /\ jobs' = jobs
  BY <1>8, <1>9 DEF SameScratch
<1>10. ASSUME NEW j \in jobs, Pass(j), UNCHANGED <<taken, lastId, files, cur, pages>>
       PROVE  Fresh' /\ Held'
  <2>1. PICK a : jobs' \subseteq (jobs \ {j}) \cup {a} /\ a.stage \notin Converting
    BY <1>2, <1>10, MovesOn DEF Goes, Pass, BeginWriting, Converting
  <2> QED
    BY <1>8, <1>10, <2>1 DEF Pass
<1>11. CASE Cleared
  <2>1. /\ UNCHANGED lastId /\ cur' = None /\ pc' # "mkdir"
        /\ files' = files \/ files' = [files EXCEPT ![cur] = NoFiles]
    BY <1>11 DEF Cleared
  <2>2. \A s \in Sessions : \A p \in PageNos :
            files'[s][p] = files[s][p] \/ files'[s][p] = Absent
    BY <1>2, <2>1 DEF NoFiles
  <2> QED
    BY <1>5, <2>1, <2>2 DEF Fresh, Held
<1>12. CASE CreateSession
  <2>1. /\ lastId' = lastId + 1 /\ cur' = None /\ files' = files
    BY <1>2, <1>12 DEF CreateSession, ControlInv, memoryVars, diskVars
  <2>2. \A s \in Sessions : lastId' < s \/ s = lastId' => lastId < s
    BY <1>2, <2>1 DEF Sessions
  <2> QED
    BY <1>5, <2>1, <2>2 DEF Fresh, Held
<1>13. CASE MakeWorkDir
  <2>1. /\ pc = "mkdir" /\ pc' = "begin" /\ cur = None /\ cur' = lastId
        /\ pages' = << >> /\ UNCHANGED <<taken, lastId, files, jobs>>
    BY <1>2, <1>13 DEF MakeWorkDir, Goto, ControlInv, rowVars, history
  <2>2. lastId \in Sessions /\ jobs' = {}
    BY <1>2, <2>1 DEF FreshInv
  <2> QED
    BY <1>5, <2>1, <2>2 DEF Fresh, Held
<1>14. CASE AppendPage
  <2> DEFINE n == [session |-> cur, page |-> NextPage, image |-> scans,
                   stage |-> "convert"]
  <2>1. /\ pc = "append" /\ pc' = "refresh" /\ UNCHANGED <<cur, files, lastId>>
        /\ pages' = Append(pages, NextPage) /\ jobs' = jobs \cup {n}
        /\ taken' = [taken EXCEPT ![cur] = Append(@, scans)]
    BY <1>14 DEF AppendPage, Goto, diskVars, rowVars
  <2>2. cur \in Sessions /\ cur # None
    BY <1>2, <2>1 DEF ControlInv, HeldPoints
  <2>3. n.page = NextPage /\ n.stage = "convert"
    OBVIOUS
  <2> HIDE DEF n
  <2>4. taken'[cur] = Append(taken[cur], scans) /\ taken[cur] \in Seq(Images)
    BY <1>2, <2>1, <2>2
  <2>5. /\ Len(taken[cur]) = Len(pages) /\ Len(taken'[cur]) = NextPage
        /\ \A i \in 1..Len(pages) : taken'[cur][i] = taken[cur][i]
    BY <1>2, <1>6, <2>2, <2>4
  <2>6. Ordered /\ Right /\ Empty
    BY <1>5, <2>2 DEF Held
  <2>7. Ordered'
    <3>1. /\ Len(pages') = NextPage /\ pages'[NextPage] = NextPage
          /\ \A i \in 1..Len(pages) : pages'[i] = pages[i]
      BY <1>2, <2>1 DEF SlotTypes
    <3> QED
      BY <1>2, <2>6, <3>1
  <2>8. Right'
    <3> SUFFICES ASSUME NEW p \in PageNos, files[cur][p] # Absent
                 PROVE  /\ p <= Len(taken'[cur])
                        /\ files[cur][p] \in {Torn, taken'[cur][p]}
      BY <2>1
    <3>1. p <= Len(pages) /\ files[cur][p] \in {Torn, taken[cur][p]}
      BY <2>5, <2>6
    <3>2. p \in 1..Len(pages) /\ p <= NextPage
      BY <1>2, <3>1 DEF PageNos
    <3> QED
      BY <2>5, <3>1, <3>2
  <2>9. files[cur][NextPage] = Absent
    <3>1. NextPage \in PageNos
      BY <1>2, <2>1 DEF PageInv, PageNos
    <3>2. ~(NextPage <= Len(taken[cur]))
      BY <1>2, <2>5
    <3> QED
      BY <2>6, <3>1, <3>2
  <2>10. Empty'
    BY <2>1, <2>3, <2>6, <2>9
  <2>11. Fresh'
    BY <1>5, <2>1 DEF Fresh
  <2> QED
    BY <2>7, <2>8, <2>10, <2>11 DEF Held
<1>15. ASSUME NEW j \in jobs, BeginWriting(j) \/ Convert(j) \/ ConvertFails(j)
       PROVE  Fresh' /\ Held'
  <2>1. /\ UNCHANGED <<cur, pages, taken, lastId, pc>> /\ Goes(j)
        /\ UNCHANGED files \/ \E c \in {Absent, Torn, j.image} : PutFile(j, c)
    BY <1>15, WritesOwn DEF Goes
  <2>2. /\ j.session = cur /\ cur \in Sessions /\ cur # None /\ j.page \in PageNos
    BY <1>2 DEF PendingIsCurrent, Job, Sessions, None
  <2>3. /\ files'[cur][j.page] \in {files[cur][j.page], Absent, Torn, j.image}
        /\ \A p \in PageNos : p # j.page => files'[cur][p] = files[cur][p]
        /\ \A s \in Sessions : s # cur => files'[s] = files[s]
    <3>1. ASSUME NEW c \in {Absent, Torn, j.image}, PutFile(j, c)
          PROVE  /\ files'[cur][j.page] = c
                 /\ \A p \in PageNos : p # j.page => files'[cur][p] = files[cur][p]
                 /\ \A s \in Sessions : s # cur => files'[s] = files[s]
      BY <1>2, <2>2, <3>1 DEF PutFile
    <3> QED
      BY <2>1, <3>1
  <2>4. Ordered /\ Right /\ Empty
    BY <1>5, <2>2 DEF Held
  <2>5. /\ j.image = taken[cur][j.page] /\ j.page <= Len(taken[cur])
        /\ \A k \in jobs : k.page = j.page => k = j
    BY <1>2, <1>6, <2>2
  <2>6. PICK a : /\ jobs' \subseteq (jobs \ {j}) \cup {a}
                 /\ a.page = j.page /\ a.stage # "convert"
                 /\ a.stage = "write" => BeginWriting(j)
    BY <1>2, <2>1, MovesOn
  <2>7. Right'
    BY <2>1, <2>3, <2>4, <2>5
  <2>8. Empty'
    <3>1. ASSUME NEW k \in jobs', k \in jobs, k # j
          PROVE  /\ k.stage = "convert" => files'[cur][k.page] = Absent
                 /\ k.stage = "write" => files'[cur][k.page] = Torn
      <4>1. k.page # j.page /\ k.page \in PageNos
        BY <1>2, <2>5, <3>1 DEF Job
      <4> QED
        BY <2>3, <2>4, <3>1, <4>1
    <3>2. BeginWriting(j) => files'[cur][j.page] = Torn
      BY <1>2, <2>2 DEF BeginWriting, PutFile
    <3>3. ASSUME NEW k \in jobs', ~(k \in jobs /\ k # j)
          PROVE  /\ k.stage = "convert" => files'[cur][k.page] = Absent
                 /\ k.stage = "write" => files'[cur][k.page] = Torn
      <4>1. k = a
        BY <2>6, <3>3
      <4> QED
        BY <2>6, <3>2, <4>1
    <3> QED
      BY <2>1, <3>1, <3>3
  <2>9. Fresh'
    <3>1. pc \notin EndPoints
      BY <1>2, <1>15 DEF JobInv
    <3>2. \A s \in Sessions : lastId < s \/ (pc = "mkdir" /\ s = lastId) => s # cur
      BY <1>7, <2>2, <3>1
    <3> QED
      BY <1>5, <2>1, <2>3, <3>2 DEF Fresh
  <2> QED
    BY <2>1, <2>4, <2>7, <2>8, <2>9 DEF Held
<1>17. ASSUME SameScratch, NEW j \in jobs, Pass(j) PROVE Fresh' /\ Held'
  BY <1>10, <1>17 DEF SameScratch
<1> QED
  BY <1>4, <1>9, <1>11, <1>12, <1>13, <1>14, <1>15, <1>17, ScratchStep

\* What can be merged is what was acknowledged, here too, and whole.
LEMMA MergedUntilStop ==
  ASSUME IInv, MatchedInv, BackedInv, FilledInv, crashes = 0, pc = "merge"
  PROVE  Complete(Document(cur, PageContents), cur)
<1>1. /\ Len(pages) \in Nat /\ cur \in Sessions \cup {None} /\ ControlInv /\ JobInv
      /\ taken \in [Sessions -> Seq(Images)]
  BY Typed
<1>2. cur # None /\ cur \in Sessions /\ jobs = {} /\ ~abort
  BY <1>1 DEF ControlInv, HeldPoints, EndPoints, JobInv
<1>3. Len(pages) = Len(taken[cur]) /\ \A i \in 1..Len(pages) : pages[i] = i
  BY <1>2 DEF MatchedInv, FilledInv
<1>4. ASSUME NEW i \in 1..Len(pages) PROVE PageContents[i] = taken[cur][i]
  <2>1. PageContents[i] = files[cur][i]
    BY <1>3 DEF PageContents
  <2> QED
    BY <1>2, <1>3, <2>1 DEF BackedInv
<1>5. Len(PageContents) = Len(pages)
  BY <1>1 DEF PageContents
<1>6. /\ Document(cur, PageContents).session = cur
      /\ Document(cur, PageContents).content = PageContents
  BY DEF Document
<1> QED
  BY <1>3, <1>4, <1>5, <1>6 DEF Complete

\* What holds of pages, goroutines, files and documents until the first stop.
UntilStopInv ==
    /\ FreshTaken /\ MatchedInv /\ BackedInv /\ FilledInv
    /\ crashes = 0 => SavedInv

\* It is inductive.
LEMMA UntilStopStep ==
  ASSUME IInv, ImageInv, UntilStopInv, [Next]_vars
  PROVE  UntilStopInv'
<1>1. CASE Next
  <2>1. HistoryTypes
    BY Typed
  <2>2. ASSUME crashes' = 0 PROVE SavedInv'
    <3>1. crashes = 0
      BY <1>1, <2>1, <2>2, NotStopped
    <3>2. pc = "merge" => Complete(Document(cur, PageContents), cur)
      BY <3>1, MergedUntilStop DEF UntilStopInv
    <3> QED
      BY <1>1, <3>1, <3>2, SavedStep DEF UntilStopInv
  <2> QED
    BY <1>1, <2>2, FreshTakenStep, BackedStep, FilledStep DEF UntilStopInv
<1>2. CASE UNCHANGED vars
  BY <1>2
     DEF UntilStopInv, FreshTaken, MatchedInv, BackedInv, FilledInv, SavedInv, Complete,
         vars, rowVars, diskVars, memoryVars, jobVars, history
<1> QED
  BY <1>1, <1>2

\* At first there is nothing to match.
LEMMA InitialUntilStop == Init => UntilStopInv
<1> SUFFICES ASSUME Init PROVE UntilStopInv
  OBVIOUS
<1>1. /\ \A s \in Sessions : taken[s] = << >> /\ rowStatus[s] = "none"
      /\ \A s \in Sessions : \A p \in PageNos : files[s][p] = Absent
      /\ cur = None /\ pc = "ready"
  BY DEF Init
<1> QED
  BY <1>1 DEF UntilStopInv, FreshTaken, MatchedInv, BackedInv, FilledInv, SavedInv

\* Until the daemon is stopped, a page that was acknowledged and converted is in
\* the session's directory or its document unless a user discarded the session
\* (session.go: finish, discard, removeWork), if the ends of sessions are recorded:
\* no other failure, of the database or of a tool, loses one.
THEOREM PagesAreKeptUntilStop ==
  ASSUME "finish" \notin Faults
  PROVE  Spec => []KeptUntilStop
<1> DEFINE Inv == IInv /\ UntilStopInv /\ ImageInv /\ (crashes = 0 => KeptInv)
<1>1. Init => Inv
  BY InitialInv, InitialUntilStop, InitialPages
<1>2. Inv /\ [Next]_vars => Inv'
  <2> SUFFICES ASSUME Inv, [Next]_vars PROVE Inv'
    OBVIOUS
  <2>1. IInv' /\ UntilStopInv' /\ ImageInv'
    BY InvStep, UntilStopStep, ImageKept
  <2>2. ASSUME Next, crashes' = 0 PROVE KeptInv'
    <3>1. HistoryTypes
      BY Typed
    <3>2. crashes = 0
      BY <2>2, <3>1, NotStopped
    <3>3. pc = "finish" /\ cur # None /\ pages = << >> => taken[cur] = << >>
      <4>1. cur \in Sessions \cup {None} /\ taken \in [Sessions -> Seq(Images)]
        BY Typed
      <4>2. cur # None => Len(pages) = Len(taken[cur])
        BY <3>2 DEF UntilStopInv, MatchedInv
      <4> QED
        BY <4>1, <4>2
    <3>4. \A j \in jobs :
              j.stage \in Converting => files[j.session][j.page] \in {Absent, Torn}
      <4>1. \A j \in jobs : j.session = cur /\ cur # None
        BY Typed DEF PendingIsCurrent
      <4> QED
        BY <3>2, <4>1 DEF UntilStopInv, FilledInv, Converting
    <3> QED
      BY <2>2, <3>2, <3>3, <3>4, KeptStep
  <2>3. CASE UNCHANGED vars
    BY <2>1, <2>3
       DEF KeptInv, InFiles, vars, rowVars, diskVars, memoryVars, history
  <2> QED
    BY <2>1, <2>2, <2>3
<1>3. Inv => KeptUntilStop
  <2> SUFFICES ASSUME Inv, crashes = 0, NEW s \in Sessions, NEW i \in 1..Len(taken[s]),
                      taken[s][i] \in converted, s \notin dropped
               PROVE  InFiles(s, taken[s][i]) \/ InDocument(s, taken[s][i])
    BY DEF KeptUntilStop, NoPageLost
  <2>1. CASE rowStatus[s] = "saved"
    <3>1. Complete(docs[rowOutput[s]], s)
      BY <2>1 DEF UntilStopInv, SavedInv
    <3> QED
      BY <2>1, <3>1 DEF Complete, InDocument
  <2>2. CASE rowStatus[s] # "saved"
    BY <2>2 DEF KeptInv
  <2> QED
    BY <2>1, <2>2
<1> QED
  BY <1>1, <1>2, <1>3, PTL DEF Spec

\* Until the daemon is stopped, the state shows a page if its file is there as a
\* whole, and only if there is a file, once its goroutine has reported, unless the
\* session was aborted; whatever fails (session.go: updatePageResult).
THEOREM ShownPagesAreOnDiskUntilStop == Spec => [](crashes = 0 => ShownMatchesDisk)
<1> DEFINE Inv == IInv /\ ImageInv /\ UntilStopInv /\ (crashes = 0 => ShownInv)
<1>1. Init => Inv
  <2>1. Init => ShownInv
    BY DEF Init, ShownInv
  <2> QED
    BY <2>1, InitialInv, InitialUntilStop, InitialPages
<1>2. Inv /\ [Next]_vars => Inv'
  <2> SUFFICES ASSUME Inv, [Next]_vars PROVE Inv'
    OBVIOUS
  <2>1. IInv' /\ ImageInv' /\ UntilStopInv'
    BY InvStep, ImageKept, UntilStopStep
  <2>2. ASSUME Next, crashes' = 0 PROVE ShownInv'
    <3>1. HistoryTypes
      BY Typed
    <3>2. crashes = 0 /\ pc # "down"
      BY <2>2, <3>1, NotStopped DEF UntilStopInv, MatchedInv
    <3> QED
      BY <2>2, <3>2, ShownStep
  <2>3. CASE UNCHANGED vars
    BY <2>1, <2>3 DEF ShownInv, Reporting, vars, diskVars, memoryVars, jobVars
  <2> QED
    BY <2>1, <2>2, <2>3
<1>3. Inv => (crashes = 0 => ShownMatchesDisk)
  <2> SUFFICES ASSUME Inv, crashes = 0 PROVE ShownMatchesDisk
    OBVIOUS
  <2>1. CASE cur = None
    BY <2>1 DEF ShownMatchesDisk
  <2>2. CASE cur # None
    BY <2>2, ShownIsRight DEF UntilStopInv, FilledInv
  <2> QED
    BY <2>1, <2>2
<1> QED
  BY <1>1, <1>2, <1>3, PTL DEF Spec

-----------------------------------------------------------------------------
(* What a session's files and documents hold, whatever fails.              *)

\* Images are acknowledged into a session and stay.
LEMMA OwnGrows ==
  ASSUME IInv, Next, NEW s \in Sessions
  PROVE  Own(s) \subseteq Own(s)'
<1>1. /\ taken \in [Sessions -> Seq(Images)] /\ jobs \subseteq Job
  BY Typed
<1>2. CASE taken' = taken
  BY <1>2 DEF Own
<1>3. CASE AppendPage
  <2>1. taken' = [taken EXCEPT ![cur] = Append(@, scans)]
    BY <1>3 DEF AppendPage
  <2>2. CASE s = cur
    <3>1. taken'[s] = Append(taken[s], scans) /\ taken[s] \in Seq(Images)
      BY <1>1, <2>1, <2>2
    <3>2. /\ Len(taken[s]) \in Nat /\ Len(taken'[s]) = Len(taken[s]) + 1
          /\ \A i \in 1..Len(taken[s]) : taken'[s][i] = taken[s][i]
      BY <3>1
    <3>3. \A i \in 1..Len(taken[s]) : i \in 1..Len(taken'[s])
      BY <3>2
    <3> QED
      BY <3>2, <3>3 DEF Own
  <2>3. CASE s # cur
    BY <1>1, <2>1, <2>3 DEF Own
  <2> QED
    BY <2>2, <2>3
<1>4. ASSUME NEW j \in jobs, Convert(j) PROVE taken' = taken
  BY <1>4 DEF Convert
<1>5. AcquireImage => taken' = taken
  BY DEF AcquireImage, history
<1> QED
  BY <1>1, <1>2, <1>3, <1>4, <1>5, SameImagesStep DEF SameImages

\* What a step can make of one page file.
LEMMA FileChanges ==
  ASSUME DiskTypes, jobs \subseteq Job, Next, NEW s \in Sessions, NEW p \in PageNos
  PROVE  \/ files'[s][p] \in {files[s][p], Absent, Torn}
         \/ \E j \in jobs : j.session = s /\ files'[s][p] = j.image
<1>1. files \in [Sessions -> [PageNos -> Contents]]
  BY DEF DiskTypes
<1> DEFINE Fine == files'[s][p] \in {files[s][p], Absent, Torn}
<1> USE DEF diskVars
<1>2. ASSUME NEW a \in Commands, Do(a) PROVE Fine
  BY <1>2 DEF Do
<1>3. ASSUME ScanStep PROVE Fine
  BY <1>3
     DEF ScanStep, Scan, CreateSession, CreateSessionFails, MakeWorkDir, MakeWorkDirFails,
         BeginScan, AcquireImage, AcquireImageFails, ScanFailed, AddPage, AddPageFails, AppendPage,
         RefreshPage
<1>4. ASSUME CloseSaved \/ CloseDiscarded PROVE Fine
  <2>1. files' = files \/ files' = [files EXCEPT ![cur] = NoFiles]
    BY <1>4 DEF CloseSaved, CloseDiscarded, RemoveWork, NoFiles
  <2> QED
    BY <1>1, <2>1 DEF NoFiles
<1>5. ASSUME FinishStep, ~CloseSaved, ~CloseDiscarded PROVE Fine
  BY <1>5
     DEF FinishStep, FinishNothing, FinishBegin, Merge, MergeFails, FailSession,
         SaveSession, UploadSucceeds, UploadFails, UploadUnrecorded, Upload,
         DiscardBegin, DiscardSession
<1>6. ASSUME NEW j \in jobs, Convert(j)
      PROVE  Fine \/ (j.session = s /\ files'[s][p] = j.image)
  <2>1. files' = [files EXCEPT ![j.session][j.page] = j.image]
    BY <1>6 DEF Convert, PutFile
  <2>2. j.session \in Sessions /\ j.page \in PageNos
    BY <1>6 DEF Job
  <2> QED
    BY <1>1, <2>1, <2>2
<1>7. ASSUME NEW j \in jobs, Process(j), ~Convert(j) PROVE Fine
  <2>1. ASSUME NEW c \in {Absent, Torn}, PutFile(j, c) PROVE Fine
    <3>1. j.session \in Sessions /\ j.page \in PageNos
      BY DEF Job
    <3> QED
      BY <1>1, <2>1, <3>1 DEF PutFile
  <2>2. UNCHANGED files \/ \E c \in {Absent, Torn} : PutFile(j, c)
    BY <1>7
       DEF Process, BeginWriting, ConvertFails, Leaves, ReportProcessed, ReportBroken,
           CountDown, Release
  <2> QED
    BY <2>1, <2>2
<1>8. ASSUME Crash PROVE Fine
  BY <1>8 DEF Crash
<1>9. ASSUME Restart PROVE Fine
  BY <1>9
     DEF Restart, RestartIdle, RecoverSession, RecoverWithoutPages, Resume, MarkLost
<1> QED
  BY <1>2, <1>3, <1>4, <1>5, <1>6, <1>7, <1>8, <1>9 DEF Next

\* A document that is added is made of the files of the session in memory.
LEMMA NewDocument ==
  ASSUME IInv, Next
  PROVE  \/ docs' = docs
         \/ \E d \in [session : Sessions, content : Seq(Contents)] :
                /\ docs' = Append(docs, d) /\ d.session = cur
                /\ \A i \in 1..Len(d.content) :
                       \/ d.content[i] = Torn
                       \/ /\ d.content[i] # Absent
                          /\ \E p \in PageNos : d.content[i] = files[cur][p]
<1>1. /\ SlotTypes /\ ControlInv /\ cur \in Sessions \cup {None}
      /\ files \in [Sessions -> [PageNos -> Contents]]
  BY Typed
<1>2. pages \in Seq(PageNos)
  BY <1>1 DEF SlotTypes
<1>3. CASE Merge
  <2> DEFINE d == Document(cur, PageContents)
  <2>1. Mergeable /\ docs' = Append(docs, d) /\ pc = "merge"
    BY <1>3 DEF Merge
  <2>2. cur \in Sessions
    BY <1>1, <2>1 DEF ControlInv, HeldPoints, EndPoints
  <2>3. \A i \in 1..Len(pages) : pages[i] \in PageNos
    BY <1>2
  <2>4. Len(pages) \in Nat /\ PageContents \in [1..Len(pages) -> Contents]
    BY <1>1, <1>2, <2>2, <2>3 DEF PageContents
  <2>5. PageContents \in Seq(Contents) /\ Len(PageContents) = Len(pages)
    BY <2>4
  <2>6. d.session = cur /\ d.content = PageContents
        /\ d \in [session : Sessions, content : Seq(Contents)]
    BY <2>2, <2>5 DEF Document
  <2>7. \A i \in 1..Len(pages) :
            /\ PageContents[i] # Absent
            /\ \E p \in PageNos : PageContents[i] = files[cur][p]
    BY <2>1, <2>3 DEF Mergeable, PageContents
  <2> HIDE DEF d
  <2> QED
    BY <2>1, <2>5, <2>6, <2>7
<1>4. docs \in Seq([session : Sessions, content : Seq(Contents)])
  BY Typed DEF DiskTypes
<1>5. docs' \in Seq([session : Sessions, content : Seq(Contents)])
  BY InvStep DEF IInv, TypeOK, DiskTypes
<1>6. ASSUME Crash, docs' # docs
      PROVE  \E d \in [session : Sessions, content : Seq(Contents)] :
                 /\ docs' = Append(docs, d) /\ d.session = cur
                 /\ \A i \in 1..Len(d.content) : d.content[i] = Torn
  <2> DEFINE d == Document(cur, <<Torn>>)
  <2>1. docs' = Append(docs, d)
    BY <1>6 DEF Crash
  <2>4. d.session = cur /\ d.content = <<Torn>>
    BY DEF Document
  <2>5. \A i \in 1..Len(d.content) : d.content[i] = Torn
    BY <2>4
  <2> HIDE DEF d
  <2>6. d \in [session : Sessions, content : Seq(Contents)]
    <3> DEFINE D == [session : Sessions, content : Seq(Contents)]
    <3> HIDE DEF D
    <3>1. docs \in Seq(D) /\ docs' \in Seq(D)
      BY <1>4, <1>5 DEF D
    <3>2. Len(docs') = Len(docs) + 1 /\ docs'[Len(docs) + 1] = d /\ Len(docs) \in Nat
      BY <2>1, <3>1
    <3>3. d \in D
      BY <3>1, <3>2
    <3> QED
      BY <3>3 DEF D
  <2> QED
    BY <2>1, <2>4, <2>5, <2>6
<1> QED
  BY <1>3, <1>6, OnlyMerge

\* A document has a session.
LEMMA DocumentSessions ==
  ASSUME DiskTypes
  PROVE  Len(docs) \in Nat /\ \A e \in 1..Len(docs) : docs[e].session \in Sessions
<1> DEFINE D == [session : Sessions, content : Seq(Contents)]
<1>1. \A x \in D : x.session \in Sessions
  OBVIOUS
<1> HIDE DEF D
<1>2. docs \in Seq(D)
  BY DEF D, DiskTypes
<1> QED
  BY <1>1, <1>2

\* A document is added behind the others.
LEMMA AppendedDocument ==
  ASSUME DiskTypes, NEW d \in [session : Sessions, content : Seq(Contents)],
         docs' = Append(docs, d)
  PROVE  /\ Len(docs') = Len(docs) + 1 /\ docs'[Len(docs) + 1] = d
         /\ \A e \in 1..Len(docs) : docs'[e] = docs[e]
<1> DEFINE D == [session : Sessions, content : Seq(Contents)]
<1>1. docs \in Seq(D) /\ d \in D
  BY DEF DiskTypes
<1> HIDE DEF D
<1> QED
  BY <1>1

\* Files and documents hold images of their own session.
LEMMA OwnStep ==
  ASSUME IInv, ImageInv, OwnInv, Next
  PROVE  OwnInv'
<1> DEFINE Filed == \A s \in Sessions : \A p \in PageNos :
                        files[s][p] \in Own(s) \cup {Absent, Torn}
           Fine(d) == \A i \in 1..Len(d.content) :
                          d.content[i] \in Own(d.session) \cup {Torn}
           Printed == \A e \in 1..Len(docs) : Fine(docs[e])
<1>1. Filed /\ Printed
  BY DEF OwnInv
<1>2. /\ DiskTypes /\ jobs \subseteq Job /\ cur \in Sessions \cup {None}
      /\ ControlInv
  BY Typed
<1>3. \A s \in Sessions : Own(s) \subseteq Own(s)'
  BY OwnGrows
<1>4. \A j \in jobs : j.image \in Own(j.session) /\ j.session \in Sessions
  BY <1>2 DEF ImageInv, Own, Job
<1>5. Filed'
  <2> SUFFICES ASSUME NEW s \in Sessions, NEW p \in PageNos
               PROVE  files'[s][p] \in Own(s)' \cup {Absent, Torn}
    BY DEF Torn
  <2> QED
    BY <1>1, <1>2, <1>3, <1>4, FileChanges
<1>6. Len(docs) \in Nat /\ \A e \in 1..Len(docs) : docs[e].session \in Sessions
  BY <1>2, DocumentSessions
<1>7. Printed'
  <2>1. ASSUME NEW e \in 1..Len(docs), docs'[e] = docs[e] PROVE Fine(docs[e])'
    BY <1>1, <1>3, <1>6, <2>1
  <2>2. CASE docs' = docs
    BY <2>1, <2>2
  <2>3. ASSUME NEW d \in [session : Sessions, content : Seq(Contents)],
               docs' = Append(docs, d), d.session = cur,
               \A i \in 1..Len(d.content) :
                   \/ d.content[i] = Torn
                   \/ /\ d.content[i] # Absent
                      /\ \E p \in PageNos : d.content[i] = files[cur][p]
        PROVE  Printed'
    <3>1. cur \in Sessions
      BY <2>3
    <3>2. \A i \in 1..Len(d.content) : d.content[i] \in Own(cur) \cup {Torn}
      BY <1>1, <2>3, <3>1
    <3>3. \A i \in 1..Len(d.content) : d.content[i] \in Own(d.session)' \cup {Torn}
      BY <1>3, <2>3, <3>1, <3>2
    <3>4. /\ Len(docs') = Len(docs) + 1 /\ docs'[Len(docs) + 1] = d
          /\ \A e \in 1..Len(docs) : docs'[e] = docs[e]
      BY <1>2, <1>6, <2>3, AppendedDocument
    <3>5. ASSUME NEW e \in 1..Len(docs'), e \notin 1..Len(docs) PROVE Fine(docs[e])'
      <4>1. docs'[e] = d
        BY <1>6, <3>4, <3>5
      <4> QED
        BY <3>3, <4>1 DEF Torn
    <3> QED
      BY <2>1, <3>4, <3>5
  <2> QED
    BY <2>2, <2>3, NewDocument
<1> HIDE DEF Filed, Printed
<1> QED
  BY <1>5, <1>7 DEF OwnInv, Filed, Printed

\* What a row names is a document of its session.
LEMMA NamesOwnStep ==
  ASSUME IInv, NamesOwnInv, Next
  PROVE  NamesOwnInv'
<1> DEFINE Names == \A s \in Sessions :
                        rowStatus[s] = "saved" =>
                            rowOutput[s] \in 1..Len(docs) /\ Bound(docs[rowOutput[s]], s)
           Naming == pc = "record-saved" => docs # << >> /\ Bound(docs[Len(docs)], cur)
<1>1. Names /\ Naming
  BY DEF NamesOwnInv
<1>2. /\ ControlInv /\ OpenIsActive /\ RoomInv /\ FreshInv /\ MemoryTypes
      /\ cur \in Sessions \cup {None} /\ DiskTypes /\ DatabaseTypes
  BY Typed
<1>3. RowTypes /\ docs \in Seq([session : Sessions, content : Seq(Contents)])
  BY <1>2 DEF RowTypes, DatabaseTypes, DiskTypes
<1>4. RowsKept /\ DocsKept
  BY <1>2, <1>3, RowsKeptStep, DocsKeptStep
<1>5. Len(docs) \in Nat /\ 1..Len(docs) \subseteq 1..Len(docs')
  <2>1. Len(docs) \in Nat
    BY <1>2, DocumentSessions
  <2>2. ASSUME NEW d \in [session : Sessions, content : Seq(Contents)],
               docs' = Append(docs, d)
        PROVE  Len(docs') = Len(docs) + 1
    BY <1>2, <2>2, AppendedDocument
  <2>3. docs' = docs \/ Len(docs') = Len(docs) + 1
    BY <2>2, NewDocument
  <2> QED
    BY <2>1, <2>3
<1>6. ASSUME NEW s \in Sessions, rowStatus'[s] = "saved", rowStatus[s] = "saved"
      PROVE  rowOutput'[s] \in 1..Len(docs') /\ Bound(docs'[rowOutput'[s]], s)
  BY <1>1, <1>4, <1>5, <1>6 DEF RowsKept, DocsKept, Terminal
<1> HIDE DEF Names, Naming
<1>7. ASSUME \A s \in Sessions : rowStatus'[s] = "saved" => rowStatus[s] = "saved"
      PROVE  Names'
  BY <1>6, <1>7 DEF Names
<1>8. CASE SaveSession
  <2>1. /\ pc = "record-saved" /\ pc' # "record-saved" /\ docs' = docs
        /\ FinishSession(cur, "saved", Len(docs), "session-saved")
    BY <1>8 DEF SaveSession, Goto, diskVars
  <2>2. cur \in Sessions
    BY <1>2, <2>1 DEF ControlInv, HeldPoints, EndPoints
  <2>3. ASSUME NEW s \in Sessions, rowStatus'[s] = "saved"
        PROVE  rowStatus[s] = "saved" \/ (s = cur /\ rowOutput'[s] = Len(docs))
    BY <1>3, <2>1, <2>2, <2>3 DEF FinishSession, RowTypes
  <2>4. Len(docs) \in 1..Len(docs) /\ Bound(docs[Len(docs)], cur)
    BY <1>1, <1>3, <1>5, <2>1 DEF Naming
  <2>5. Names'
    BY <1>6, <2>1, <2>3, <2>4 DEF Names
  <2> QED
    BY <2>1, <2>5 DEF NamesOwnInv, Names, Naming
<1>9. CASE Merge
  <2> DEFINE d == Document(cur, PageContents)
  <2>1. UNCHANGED <<rowStatus, cur>> /\ docs' = Append(docs, d) /\ Bound(d, cur)
    BY <1>9 DEF Merge, Mergeable, PageContents, Bound, Document, rowVars, memoryVars
  <2>2. Len(docs') = Len(docs) + 1 /\ docs'[Len(docs) + 1] = d
    <3> HIDE DEF d
    <3> QED
      BY <1>3, <2>1
  <2>3. docs' # << >>
    BY <1>5, <2>2
  <2>4. Naming'
    BY <2>1, <2>2, <2>3 DEF Naming
  <2>5. Names'
    BY <1>7, <2>1
  <2> QED
    BY <2>4, <2>5 DEF NamesOwnInv, Names, Naming
<1>10. CASE FinishBegin \/ AppendPage
  <2>1. rowStatus' = rowStatus /\ pc' # "record-saved"
    BY <1>10 DEF FinishBegin, AppendPage, Goto, rowVars
  <2>2. Names'
    BY <1>7, <2>1
  <2> QED
    BY <2>1, <2>2 DEF NamesOwnInv, Names, Naming
<1>11. CASE Quiet
  <2>1. Names'
    BY <1>7, <1>11 DEF Quiet
  <2>2. Naming'
    BY <1>1, <1>11 DEF Quiet, Naming
  <2> QED
    BY <2>1, <2>2 DEF NamesOwnInv, Names, Naming
<1>12. ASSUME Crash PROVE NamesOwnInv'
  <2>1. rowStatus' = rowStatus /\ pc' = "down"
    BY <1>12 DEF Crash, rowVars
  <2>2. Names'
    BY <1>7, <2>1
  <2> QED
    BY <2>1, <2>2 DEF NamesOwnInv, Names, Naming
<1> QED
  BY <1>3, <1>8, <1>9, <1>10, <1>11, <1>12, QuietStep

\* Whatever operation fails and whenever the daemon stops, the document a saved
\* session names is made of its own pages, and until the first stop it is all of
\* them in order (session.go: scan, processPage, finish, recover; merge.go).
THEOREM SavedSessionsAreTheirOwn == Spec => []SavedIsOwn
<1> DEFINE Inv == IInv /\ UntilStopInv /\ ImageInv /\ OwnInv /\ NamesOwnInv
<1>1. Init => Inv
  <2> SUFFICES ASSUME Init PROVE OwnInv /\ NamesOwnInv
    BY InitialInv, InitialUntilStop, InitialPages
  <2>1. /\ \A s \in Sessions : rowStatus[s] = "none"
        /\ \A s \in Sessions : \A p \in PageNos : files[s][p] = Absent
        /\ Len(docs) = 0 /\ pc = "ready"
    BY DEF Init
  <2> QED
    BY <2>1 DEF OwnInv, NamesOwnInv
<1>2. Inv /\ [Next]_vars => Inv'
  <2> SUFFICES ASSUME Inv, [Next]_vars PROVE Inv'
    OBVIOUS
  <2>1. IInv' /\ UntilStopInv' /\ ImageInv'
    BY InvStep, UntilStopStep, ImageKept
  <2>2. CASE Next
    BY <2>1, <2>2, OwnStep, NamesOwnStep
  <2>3. CASE UNCHANGED vars
    BY <2>1, <2>3
       DEF OwnInv, NamesOwnInv, Own, vars, rowVars, diskVars, memoryVars, history
  <2> QED
    BY <2>2, <2>3
<1>3. Inv => SavedIsOwn
  <2> SUFFICES ASSUME Inv, NEW s \in Sessions, rowStatus[s] = "saved"
               PROVE  /\ Bound(docs[rowOutput[s]], s)
                      /\ \A i \in 1..Len(docs[rowOutput[s]].content) :
                             docs[rowOutput[s]].content[i] \in Own(s) \cup {Torn}
                      /\ crashes = 0 => docs[rowOutput[s]].content = taken[s]
    BY DEF SavedIsOwn
  <2>1. rowOutput[s] \in 1..Len(docs) /\ Bound(docs[rowOutput[s]], s)
    BY DEF NamesOwnInv
  <2>2. ASSUME crashes = 0 PROVE docs[rowOutput[s]].content = taken[s]
    <3> DEFINE c == docs[rowOutput[s]].content
               D == [session : Sessions, content : Seq(Contents)]
    <3>1. /\ Len(c) = Len(taken[s]) /\ taken[s] \in Seq(Images)
          /\ \A i \in 1..Len(taken[s]) : c[i] = taken[s][i]
      <4>1. Complete(docs[rowOutput[s]], s)
        BY <2>2 DEF UntilStopInv, SavedInv
      <4> QED
        BY <2>2, <4>1, Typed DEF Complete
    <3>2. docs \in Seq(D)
      BY Typed DEF DiskTypes
    <3>3. docs[rowOutput[s]] \in D
      <4> HIDE DEF D
      <4> QED
        BY <2>1, <3>2
    <3>4. c \in Seq(Contents)
      BY <3>3
    <3> HIDE DEF c
    <3>5. c = taken[s]
      BY <3>1, <3>4, SameSequence
    <3> QED
      BY <3>5 DEF c
  <2> QED
    BY <2>1, <2>2 DEF OwnInv, Bound
<1> QED
  BY <1>1, <1>2, <1>3, PTL DEF Spec

-----------------------------------------------------------------------------
(* What actions do, and sessions of a daemon that is not stopped.          *)

\* An action that finishes or discards returns without an open session.
ClosesWhenDone ==
    pc \notin {"ready", "down"} /\ pc' = "ready" /\ act \notin ScanActions => cur' = None

\* The points an action returns from.
LEMMA ClosesStep ==
  ASSUME ControlInv, Next
  PROVE  ClosesWhenDone
<1> USE DEF ClosesWhenDone, ControlInv, Goto, Return, memoryVars
<1>1. ASSUME NEW a \in Commands, Do(a) PROVE ClosesWhenDone
  BY <1>1 DEF Do
<1>2. ASSUME ScanStep PROVE ClosesWhenDone
  BY <1>2
     DEF ScanStep, Scan, CreateSession, CreateSessionFails, MakeWorkDir, MakeWorkDirFails,
         BeginScan, AcquireImage, AcquireImageFails, ScanFailed, AddPage, AddPageFails, AppendPage,
         RefreshPage
<1>3. ASSUME FinishStep PROVE ClosesWhenDone
  BY <1>3
     DEF FinishStep, FinishNothing, FinishBegin, Merge, MergeFails, FailSession,
         SaveSession, UploadSucceeds, UploadFails, UploadUnrecorded, Upload, CloseSaved,
         DiscardBegin, DiscardSession, CloseDiscarded, ClearSession
<1>4. ASSUME NEW j \in jobs, Process(j) PROVE ClosesWhenDone
  BY <1>4
     DEF Process, BeginWriting, Convert, ConvertFails, ReportProcessed, ReportBroken, CountDown,
         Release
<1>5. ASSUME Crash PROVE ClosesWhenDone
  BY <1>5 DEF Crash
<1>6. ASSUME Restart PROVE ClosesWhenDone
  BY <1>6
     DEF Restart, RestartIdle, RecoverSession, RecoverWithoutPages, Resume, MarkLost
<1> QED
  BY <1>1, <1>2, <1>3, <1>4, <1>5, <1>6 DEF Next

\* Whatever fails on the way, an action that returns has settled the status, and
\* finish and discard leave no document open, so that the next page begins a new
\* one (session.go: scan, finish, discard).
THEOREM ActionsSettle == Spec => ReturnSettles
<1>1. Init => IInv
  BY InitialInv
<1>2. IInv /\ [Next]_vars => IInv'
  BY InvStep
<1>3. IInv /\ [Next]_vars => [ClosesWhenDone]_vars
  <2>1. IInv /\ Next => ClosesWhenDone
    BY ClosesStep DEF IInv
  <2> QED
    BY <2>1
<1>4. ClosesWhenDone /\ StatusSettles' =>
          (pc \notin {"ready", "down"} /\ pc' = "ready" =>
               StatusSettles' /\ (act \notin ScanActions => cur' = None))
  BY DEF ClosesWhenDone
<1> QED
  BY <1>1, <1>2, <1>3, <1>4, StatusIsSettled, PTL DEF Spec, ReturnSettles

\* A daemon that is never stopped gives each session the life it is promised, with
\* all its pages in its document, although scans, conversions, merges, uploads,
\* directory removals, and the records of pages and of the log may fail
\* (session.go: start, scan, finish, discard; store.go: AddPageWithAction).
THEOREM SessionsImplementLifecycleUntilStop ==
  ASSUME MaxCrashes = 0, {"mkdir", "finish"} \cap Faults = {}
  PROVE  Spec => ImplementsLifecycle
<1> DEFINE Inv == IInv /\ UntilStopInv /\ ImageInv /\ LifeInv
<1>1. Init => Inv
  BY InitialInv, InitialUntilStop, InitialPages, InitialLife
<1>2. Inv => crashes = 0 /\ pc # "down" /\ SavedInv
  <2> SUFFICES ASSUME Inv PROVE crashes = 0 /\ pc # "down" /\ SavedInv
    OBVIOUS
  <2>1. crashes = 0
    BY Typed DEF HistoryTypes
  <2> QED
    BY <2>1 DEF UntilStopInv, MatchedInv
<1>3. Inv /\ [Next]_vars => Inv'
  <2> SUFFICES ASSUME Inv, [Next]_vars PROVE Inv'
    OBVIOUS
  <2>1. IInv' /\ UntilStopInv' /\ ImageInv'
    BY InvStep, UntilStopStep, ImageKept
  <2>2. LifeInv'
    BY <1>2, LifeKept
  <2> QED
    BY <2>1, <2>2
<1>4. Inv /\ [Next]_vars => [Lifecycle!Next]_(Lifecycle!vars)
  <2> SUFFICES ASSUME Inv, [Next]_vars
               PROVE  Lifecycle!Next \/ UNCHANGED Lifecycle!vars
    OBVIOUS
  <2>1. CASE Next
    BY <1>2, <2>1, RefinedStep
  <2>2. CASE UNCHANGED vars
    BY <2>2 DEF Lifecycle!vars, LifeOf, DocumentOf, vars, rowVars, diskVars, history
  <2> QED
    BY <2>1, <2>2
<1> QED
  BY <1>1, <1>3, <1>4, RefinedInit, PTL
     DEF Spec, ImplementsLifecycle, Lifecycle!Spec
=============================================================================
