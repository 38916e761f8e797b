---------------------------- MODULE UploadProofs ----------------------------
(***************************************************************************)
(* UploadInv is an inductive invariant of Upload for any number of         *)
(* documents, concurrent retries, lost answers and stops: a row that says  *)
(* uploaded leads to its document, unless the server named none, and shows *)
(* the outcome logged last.                                                *)
(***************************************************************************)
EXTENDS Upload, TLAPS

\* A step that starts, answers or forgets an upload keeps every variable's type.
LEMMA TypeStep ==
  ASSUME TypeOK, OutcomeInv, Next
  PROVE  TypeOK'
<1> USE UploadAssumption
<1>1. ASSUME NEW w \in Workers, NEW s \in Sessions, Begin(w, s),
             saved' \subseteq Sessions,
             UNCHANGED <<rowVars, log, server, unnamed, crashes, faults>>
      PROVE  TypeOK'
  <2>1. [Rested EXCEPT !.at = "post", !.session = s] \in Worker
    BY DEF Rested, Worker, Ids, NoId
  <2>2. worker' \in [Workers -> Worker]
    BY <1>1, <2>1 DEF Begin, TypeOK
  <2>3. attempts' \in 0..MaxAttempts
    <3>1. attempts \in 0..MaxAttempts
      BY DEF TypeOK
    <3>2. attempts < MaxAttempts /\ attempts' = attempts + 1
      BY <1>1 DEF Begin
    <3> QED
      BY <3>1, <3>2
  <2> QED
    BY <1>1, <2>2, <2>3 DEF TypeOK, rowVars
<1>2. ASSUME NEW s \in Sessions, FinishUploading(s) \/ FinishNoUpload(s)
      PROVE  TypeOK'
  <2>1. CASE FinishUploading(s)
    BY <1>1, <2>1 DEF FinishUploading, TypeOK, Workers
  <2>2. CASE FinishNoUpload(s)
    BY <2>2 DEF FinishNoUpload, TypeOK, rowVars
  <2> QED
    BY <1>2, <2>1, <2>2
<1>3. ASSUME NEW h \in Handlers, NEW s \in Sessions, RetryUpload(h, s) PROVE TypeOK'
  BY <1>1, <1>3 DEF RetryUpload, TypeOK, Workers
<1>4. ASSUME NEW w \in Workers, NEW o \in Outcomes, NEW n \in Nat, Answered(w, o, n),
             server' = server \/ server' = Append(server, worker[w].session),
             unnamed' = unnamed \/ unnamed' = unnamed \cup {worker[w].session},
             faults' \in 0..MaxFaults
      PROVE  TypeOK'
  <2>1. worker \in [Workers -> Worker] /\ worker[w].session \in Sessions
    BY <1>4 DEF Answered, TypeOK, OutcomeInv
  <2>2. worker' = [worker EXCEPT ![w] = [at |-> "record", session |-> worker[w].session, outcome |-> o, id |-> n]]
    BY <1>4 DEF Answered
  <2>3. [at |-> "record", session |-> worker[w].session, outcome |-> o, id |-> n] \in Worker
    BY <2>1 DEF Worker, Ids
  <2>4. worker' \in [Workers -> Worker]
    BY <2>1, <2>2, <2>3
  <2>5. server' \in Seq(Sessions)
    <3>1. server \in Seq(Sessions)
      BY DEF TypeOK
    <3> QED
      BY <1>4, <2>1, <3>1
  <2> QED
    BY <1>4, <2>1, <2>4, <2>5 DEF Answered, TypeOK, rowVars
<1>5. ASSUME NEW w \in Workers, Post(w) PROVE TypeOK'
  <2>1. Len(server) + 1 \in Nat /\ NoId \in Nat
    <3>1. server \in Seq(Sessions)
      BY DEF TypeOK
    <3>2. Len(server) \in Nat
      BY <3>1
    <3> QED
      BY <3>2 DEF NoId
  <2>2. faults' \in 0..MaxFaults
    <3>1. faults \in 0..MaxFaults
      BY DEF TypeOK
    <3>2. faults' = faults \/ (faults < MaxFaults /\ faults' = faults + 1)
      BY <1>5 DEF Post, PostSucceeds, PostUnnamed, PostFails, AnswerLost, Fault
    <3> QED
      BY <3>1, <3>2
  <2> QED
    BY <1>4, <1>5, <2>1, <2>2
       DEF Post, PostSucceeds, PostUnnamed, PostFails, AnswerLost, Outcomes
<1>6. Rested \in Worker
  BY DEF Rested, Worker, Ids, NoId
<1>7. ASSUME NEW w \in Workers, RecordUpload(w) PROVE TypeOK'
  <2> DEFINE t == worker[w]
  <2>1. t.session \in Sessions /\ t.outcome \in Outcomes /\ t.id \in Ids
    BY <1>7 DEF RecordUpload, TypeOK, OutcomeInv, Worker, Outcomes
  <2> HIDE DEF t
  <2>2. /\ worker' = [worker EXCEPT ![w] = Rested]
        /\ uploadStatus' = [uploadStatus EXCEPT ![t.session] = t.outcome]
        /\ lemmaryId' = [lemmaryId EXCEPT ![t.session] = t.id]
        /\ log' = Append(log, [session |-> t.session, outcome |-> t.outcome])
        /\ UNCHANGED <<saved, server, unnamed, attempts, crashes, faults>>
    BY <1>7 DEF RecordUpload, Rest, t
  <2>3. log' \in Seq([session : Sessions, outcome : Outcomes])
    <3>1. [session |-> t.session, outcome |-> t.outcome] \in [session : Sessions, outcome : Outcomes]
      BY <2>1
    <3>2. log \in Seq([session : Sessions, outcome : Outcomes])
      BY DEF TypeOK
    <3> QED
      BY <2>2, <3>1, <3>2
  <2>4. /\ worker' \in [Workers -> Worker]
        /\ uploadStatus' \in [Sessions -> Outcomes \cup {""}]
        /\ lemmaryId' \in [Sessions -> Ids]
    BY <1>6, <2>1, <2>2 DEF TypeOK
  <2> QED
    BY <2>2, <2>3, <2>4 DEF TypeOK
<1>8. ASSUME NEW w \in Workers, RecordUploadFails(w) PROVE TypeOK'
  <2>1. worker' \in [Workers -> Worker]
    BY <1>6, <1>8 DEF RecordUploadFails, Rest, TypeOK
  <2>2. faults \in 0..MaxFaults /\ faults < MaxFaults /\ faults' = faults + 1
    BY <1>8 DEF RecordUploadFails, Fault, TypeOK
  <2>3. faults' \in 0..MaxFaults
    BY <2>2
  <2> QED
    BY <1>8, <2>1, <2>3 DEF RecordUploadFails, TypeOK, rowVars
<1>9. ASSUME Crash PROVE TypeOK'
  <2>1. worker' \in [Workers -> Worker]
    BY <1>6, <1>9 DEF Crash
  <2>2. crashes \in 0..MaxCrashes /\ crashes < MaxCrashes /\ crashes' = crashes + 1
    BY <1>9 DEF Crash, TypeOK
  <2>3. crashes' \in 0..MaxCrashes
    BY <2>2
  <2> QED
    BY <1>9, <2>1, <2>3 DEF Crash, TypeOK, rowVars
<1> QED
  BY <1>2, <1>3, <1>5, <1>7, <1>8, <1>9 DEF Next

\* What an upload waits to record is so on the server: the server forgets
\* nothing, and each goroutine answers for itself.
LEMMA OutcomeStep ==
  ASSUME TypeOK, OutcomeInv, Next
  PROVE  OutcomeInv'
<1> USE DEF rowVars
<1>1. ASSUME NEW w \in Workers, NEW s \in Sessions, Begin(w, s),
             UNCHANGED <<server, unnamed>>
      PROVE  OutcomeInv'
  BY <1>1 DEF Begin, OutcomeInv, Found, TypeOK, Rested, Worker
<1>2. ASSUME UNCHANGED <<worker, server, unnamed>> PROVE OutcomeInv'
  BY <1>2 DEF OutcomeInv, Found
<1>3. ASSUME NEW w \in Workers, NEW o \in Outcomes, NEW n \in Nat, Answered(w, o, n),
             server' = server \/ server' = Append(server, worker[w].session),
             unnamed \subseteq unnamed',
             NEW z, z = worker[w].session,
             IF o = "uploaded" THEN Found(z, n)' ELSE n = NoId
      PROVE  OutcomeInv'
  <2>1. worker[w].session \in Sessions /\ worker \in [Workers -> Worker] /\ server \in Seq(Sessions)
    BY <1>3 DEF Answered, OutcomeInv, TypeOK
  <2>2. \A i \in 1..Len(server) : i \in 1..Len(server') /\ server'[i] = server[i]
    BY <1>3, <2>1
  <2>3. /\ worker'[w].at = "record" /\ worker'[w].session = worker[w].session
        /\ worker'[w].outcome = o /\ worker'[w].id = n
    BY <1>3, <2>1 DEF Answered, Worker
  <2>4. \A v \in Workers \ {w} : worker'[v] = worker[v]
    BY <1>3, <2>1 DEF Answered
  <2> HIDE DEF Workers
  <2>5. ASSUME NEW v \in Workers, v # w
        PROVE  /\ worker'[v].at # "idle" => worker'[v].session \in Sessions
               /\ worker'[v].at = "record" =>
                     IF worker'[v].outcome = "uploaded"
                     THEN Found(worker[v].session, worker[v].id)'
                     ELSE worker'[v].outcome = "failed" /\ worker'[v].id = NoId
    BY <1>3, <2>2, <2>4, <2>5 DEF OutcomeInv, Found
  <2>6. o # "uploaded" => o = "failed"
    BY DEF Outcomes
  <2>7. o = "uploaded" => Found(worker[w].session, worker[w].id)'
    BY <1>3, <2>3 DEF Found
  <2> QED
    BY <1>3, <2>1, <2>3, <2>5, <2>6, <2>7 DEF OutcomeInv
<1>4. ASSUME NEW w \in Workers, Post(w) PROVE OutcomeInv'
  <2>1. CASE PostSucceeds(w)
    <3>1. server \in Seq(Sessions)
      BY DEF TypeOK
    <3>4. Len(server) \in Nat
      BY <3>1
    <3>5. Len(server) + 1 \in Nat
      BY <3>4
    <3>2. /\ Answered(w, "uploaded", Len(server) + 1)
          /\ server' = Append(server, worker[w].session)
      BY <2>1 DEF PostSucceeds
    <3>6. worker[w].session \in Sessions
      BY <3>2 DEF Answered, OutcomeInv
    <3>3. Len(server) + 1 \in 1..Len(server') /\ server'[Len(server) + 1] = worker[w].session
      BY <3>1, <3>2, <3>6
    <3>7. unnamed' = unnamed
      BY <2>1 DEF PostSucceeds
    <3>8. PICK z : z = worker[w].session
      OBVIOUS
    <3>9. PICK n : n = Len(server) + 1
      OBVIOUS
    <3>10. Found(z, n)'
      BY <3>3, <3>8, <3>9 DEF Found
    <3> QED
      BY <1>3, <3>2, <3>5, <3>7, <3>8, <3>9, <3>10 DEF Outcomes
  <2>2. CASE PostFails(w) \/ AnswerLost(w)
    BY <1>3, <2>2 DEF PostFails, AnswerLost, Outcomes, NoId
  <2>3. CASE PostUnnamed(w)
    <3>1. PICK z : z = worker[w].session
      OBVIOUS
    <3>2. Found(z, NoId)'
      BY <2>3, <3>1 DEF PostUnnamed, Found
    <3> QED
      BY <1>3, <2>3, <3>1, <3>2 DEF PostUnnamed, Outcomes, NoId
  <2> QED
    BY <1>4, <2>1, <2>2, <2>3 DEF Post
<1>5. ASSUME NEW w \in Workers, Rest(w), UNCHANGED <<server, unnamed>>
      PROVE  OutcomeInv'
  BY <1>5 DEF Rest, Rested, OutcomeInv, Found, TypeOK
<1>6. ASSUME Crash PROVE OutcomeInv'
  BY <1>6 DEF Crash, Rested, OutcomeInv
<1> QED
  BY <1>1, <1>2, <1>4, <1>5, <1>6
     DEF Next, FinishUploading, FinishNoUpload, RetryUpload, RecordUpload, RecordUploadFails, Workers

\* An id that was recorded leads to its document: it was so when it was
\* recorded, and the server forgets nothing.
LEMMA ServerStep ==
  ASSUME TypeOK, OutcomeInv, UploadedIsOnServer, Next
  PROVE  UploadedIsOnServer'
<1> USE DEF rowVars
<1>1. ASSUME UNCHANGED <<rowVars, server, unnamed>> PROVE UploadedIsOnServer'
  BY <1>1 DEF UploadedIsOnServer, Found
<1>2. ASSUME NEW w \in Workers, Post(w) PROVE UploadedIsOnServer'
  <2>1. server' = server \/ server' = Append(server, worker[w].session)
    BY <1>2 DEF Post, PostSucceeds, PostUnnamed, PostFails, AnswerLost
  <2>2. worker[w].session \in Sessions /\ server \in Seq(Sessions)
    BY <1>2
       DEF Post, PostSucceeds, PostUnnamed, PostFails, AnswerLost, Answered, OutcomeInv, TypeOK
  <2>3. \A i \in 1..Len(server) : i \in 1..Len(server') /\ server'[i] = server[i]
    BY <2>1, <2>2
  <2>4. UNCHANGED rowVars /\ unnamed \subseteq unnamed'
    BY <1>2 DEF Post, PostSucceeds, PostUnnamed, PostFails, AnswerLost, Answered
  <2> QED
    BY <2>3, <2>4 DEF UploadedIsOnServer, Found
<1>3. ASSUME NEW w \in Workers, RecordUpload(w) PROVE UploadedIsOnServer'
  <2> DEFINE t == worker[w]
  <2>1. /\ t.session \in Sessions
        /\ IF t.outcome = "uploaded"
           THEN Found(t.session, t.id)
           ELSE t.id = NoId
    BY <1>3 DEF RecordUpload, OutcomeInv
  <2> HIDE DEF t
  <2>2. /\ uploadStatus' = [uploadStatus EXCEPT ![t.session] = t.outcome]
        /\ lemmaryId' = [lemmaryId EXCEPT ![t.session] = t.id]
        /\ UNCHANGED <<server, unnamed>>
    BY <1>3 DEF RecordUpload, t
  <2>3. uploadStatus \in [Sessions -> Outcomes \cup {""}] /\ lemmaryId \in [Sessions -> Ids]
    BY DEF TypeOK
  <2>4. /\ uploadStatus'[t.session] = t.outcome /\ lemmaryId'[t.session] = t.id
        /\ \A s \in Sessions \ {t.session} :
              uploadStatus'[s] = uploadStatus[s] /\ lemmaryId'[s] = lemmaryId[s]
    BY <2>1, <2>2, <2>3
  <2> QED
    BY <2>1, <2>2, <2>4 DEF UploadedIsOnServer, Found
<1> QED
  BY <1>1, <1>2, <1>3
     DEF Next, FinishUploading, FinishNoUpload, RetryUpload, RecordUploadFails, Crash

\* Status and log entry are written together, so the last entry is the status.
LEMMA RowStep ==
  ASSUME TypeOK, OutcomeInv, RowShowsLastOutcome, Next
  PROVE  RowShowsLastOutcome'
<1> USE DEF rowVars
<1>1. ASSUME UNCHANGED <<rowVars, log>> PROVE RowShowsLastOutcome'
  <2>1. uploadStatus' = uploadStatus /\ log' = log
    BY <1>1
  <2>2. \A s \in Sessions : NeverLogged(s)' = NeverLogged(s) /\ \A o : LoggedLast(s, o)' = LoggedLast(s, o)
    BY <2>1 DEF NeverLogged, LoggedLast
  <2> QED
    BY <2>1, <2>2 DEF RowShowsLastOutcome
<1>2. ASSUME NEW w \in Workers, RecordUpload(w) PROVE RowShowsLastOutcome'
  <2> DEFINE t == worker[w]
             n == Len(log)
  <2>1. t.session \in Sessions
    BY <1>2 DEF RecordUpload, OutcomeInv
  <2>2. /\ uploadStatus' = [uploadStatus EXCEPT ![t.session] = t.outcome]
        /\ log' = Append(log, [session |-> t.session, outcome |-> t.outcome])
    BY <1>2 DEF RecordUpload
  <2> HIDE DEF t
  <2>3. log \in Seq([session : Sessions, outcome : Outcomes])
    BY DEF TypeOK
  <2>4. n \in Nat /\ Len(log') = n + 1
    BY <2>2, <2>3
  <2>5. log'[n + 1] = [session |-> t.session, outcome |-> t.outcome]
    BY <2>2, <2>3
  <2>6. \A i \in 1..n : log'[i] = log[i]
    BY <2>2, <2>3
  <2>7. uploadStatus'[t.session] = t.outcome
    BY <2>1, <2>2 DEF TypeOK
  <2>8. \A s \in Sessions \ {t.session} : uploadStatus'[s] = uploadStatus[s]
    BY <2>2 DEF TypeOK
  <2> HIDE DEF n
  <2>9. log'[n + 1].session = t.session
    BY <2>5
  <2>10. ASSUME NEW s \in Sessions, NEW o, s = t.session, o = t.outcome
         PROVE  LoggedLast(s, o)'
    <3>1. n + 1 \in 1..Len(log') /\ (n + 1 + 1)..Len(log') = {}
      BY <2>4
    <3>2. log'[n + 1] = [session |-> s, outcome |-> o]
      BY <2>5, <2>10
    <3> QED
      BY <3>1, <3>2 DEF LoggedLast
  <2>11. ASSUME NEW s \in Sessions, s # t.session, NEW o, LoggedLast(s, o)
         PROVE  LoggedLast(s, o)'
    <3>1. PICK i \in 1..n :
             /\ log[i] = [session |-> s, outcome |-> o]
             /\ \A k \in (i + 1)..n : log[k].session # s
      BY <2>11 DEF LoggedLast, n
    <3>2. i \in 1..Len(log') /\ log'[i] = [session |-> s, outcome |-> o]
      BY <2>4, <2>6, <3>1
    <3>3. ASSUME NEW k \in (i + 1)..Len(log') PROVE log'[k].session # s
      <4>1. k = n + 1 \/ k \in (i + 1)..n
        BY <2>4
      <4>2. k \in (i + 1)..n => k \in 1..n
        BY <2>4
      <4> QED
        BY <2>6, <2>9, <2>11, <3>1, <4>1, <4>2
    <3> QED
      BY <3>2, <3>3 DEF LoggedLast
  <2>12. ASSUME NEW s \in Sessions, s # t.session, NeverLogged(s)
         PROVE  NeverLogged(s)'
    <3> SUFFICES ASSUME NEW i \in 1..Len(log') PROVE log'[i].session # s
      BY DEF NeverLogged
    <3>1. i = n + 1 \/ i \in 1..n
      BY <2>4
    <3>2. \A k \in 1..n : log[k].session # s
      BY <2>12 DEF NeverLogged, n
    <3> QED
      BY <2>6, <2>9, <2>12, <3>1, <3>2
  <2>13. ASSUME NEW s \in Sessions
         PROVE  (LoggedLast(s, uploadStatus[s]) \/ (NeverLogged(s) /\ uploadStatus[s] = ""))'
    <3>1. PICK o : o = uploadStatus'[s]
      OBVIOUS
    <3>2. LoggedLast(s, o)' \/ (NeverLogged(s)' /\ o = "")
      <4>1. CASE s = t.session
        BY <2>7, <2>10, <3>1, <4>1
      <4>2. CASE s # t.session
        <5>1. o = uploadStatus[s]
          BY <2>8, <3>1, <4>2
        <5>2. LoggedLast(s, o) \/ (NeverLogged(s) /\ o = "")
          BY <5>1 DEF RowShowsLastOutcome
        <5> QED
          BY <2>11, <2>12, <4>2, <5>2
      <4> QED
        BY <4>1, <4>2
    <3> QED
      BY <3>1, <3>2 DEF LoggedLast
  <2> QED
    BY <2>13 DEF RowShowsLastOutcome
<1> QED
  BY <1>1, <1>2
     DEF Next, FinishUploading, FinishNoUpload, RetryUpload, Post, PostSucceeds,
         PostUnnamed, PostFails, AnswerLost, Answered, RecordUploadFails, Crash

\* The invariant holds at the start.
LEMMA InitialInv == Init => UploadInv
<1> SUFFICES ASSUME Init PROVE UploadInv
  OBVIOUS
<1>1. TypeOK
  <2>1. /\ saved = {} /\ uploadStatus = [s \in Sessions |-> ""] /\ lemmaryId = [s \in Sessions |-> NoId]
        /\ worker = [w \in Workers |-> Rested] /\ unnamed = {}
    BY DEF Init
  <2>2. attempts \in 0..MaxAttempts /\ crashes \in 0..MaxCrashes /\ faults \in 0..MaxFaults
    <3>1. attempts = 0 /\ crashes = 0 /\ faults = 0
      BY DEF Init
    <3>2. MaxAttempts \in Nat /\ MaxCrashes \in Nat /\ MaxFaults \in Nat
      BY UploadAssumption
    <3> QED
      BY <3>1, <3>2
  <2>3. log = << >> /\ server = << >>
    BY DEF Init
  <2>4. log \in Seq([session : Sessions, outcome : Outcomes]) /\ server \in Seq(Sessions)
    BY <2>3
  <2>5. Rested \in Worker
    BY DEF Rested, Worker, Ids, NoId
  <2>6. worker \in [Workers -> Worker]
    BY <2>1, <2>5
  <2>7. uploadStatus \in [Sessions -> Outcomes \cup {""}] /\ lemmaryId \in [Sessions -> Ids]
    BY <2>1 DEF Ids, NoId
  <2> QED
    BY <2>1, <2>2, <2>4, <2>6, <2>7 DEF TypeOK
<1>2. OutcomeInv
  BY DEF Init, OutcomeInv, Rested
<1>3. UploadedIsOnServer
  BY DEF Init, UploadedIsOnServer
<1>4. RowShowsLastOutcome
  <2>1. uploadStatus = [s \in Sessions |-> ""] /\ log = << >>
    BY DEF Init
  <2> QED
    <3>1. Len(log) = 0
      BY <2>1
    <3>2. 1..Len(log) = {}
      BY <3>1
    <3>3. \A s \in Sessions : uploadStatus[s] = ""
      BY <2>1
    <3> QED
      BY <3>2, <3>3 DEF RowShowsLastOutcome, NeverLogged
<1> QED
  BY <1>1, <1>2, <1>3, <1>4 DEF UploadInv

\* Every step keeps it, and so it holds throughout.
LEMMA Invariance == Spec => []UploadInv
<1>1. UploadInv /\ [Next]_vars => UploadInv'
  <2> SUFFICES ASSUME UploadInv, [Next]_vars PROVE UploadInv'
    OBVIOUS
  <2>1. TypeOK /\ OutcomeInv /\ UploadedIsOnServer /\ RowShowsLastOutcome
    BY DEF UploadInv
  <2>2. CASE Next
    BY <2>1, <2>2, TypeStep, OutcomeStep, ServerStep, RowStep DEF UploadInv
  <2>3. CASE UNCHANGED vars
    <3>1. /\ saved' = saved /\ uploadStatus' = uploadStatus /\ lemmaryId' = lemmaryId /\ log' = log
          /\ server' = server /\ worker' = worker /\ unnamed' = unnamed
          /\ attempts' = attempts /\ crashes' = crashes /\ faults' = faults
      BY <2>3 DEF vars, rowVars
    <3>2. TypeOK'
      BY <2>1, <3>1 DEF TypeOK
    <3>3. OutcomeInv' /\ UploadedIsOnServer'
      BY <2>1, <3>1 DEF OutcomeInv, UploadedIsOnServer, Found
    <3>4. RowShowsLastOutcome'
      <4>1. \A s \in Sessions : NeverLogged(s)' = NeverLogged(s) /\ \A o : LoggedLast(s, o)' = LoggedLast(s, o)
        BY <3>1 DEF NeverLogged, LoggedLast
      <4> QED
        BY <2>1, <3>1, <4>1 DEF RowShowsLastOutcome
    <3> QED
      BY <3>2, <3>3, <3>4 DEF UploadInv
  <2> QED
    BY <2>2, <2>3
<1> QED
  BY <1>1, InitialInv, PTL DEF Spec

\* The id of a session shown as uploaded leads to its own document on the server,
\* whatever retries race and whatever is lost, or it is empty because the server
\* accepted that document without naming it; a session not shown as uploaded has
\* no id (session.go: upload, RetryUpload; lemmary.go: Upload, which takes every
\* JSON answer with a status of success).
THEOREM UploadedCanBeFound == Spec => []UploadedIsOnServer
<1>1. UploadInv => UploadedIsOnServer
  BY DEF UploadInv
<1> QED
  BY <1>1, Invariance, PTL

\* The row of a session shows the upload outcome that was logged last
\* (store.go: RecordUploadWithAction).
THEOREM RowAgreesWithLog == Spec => []RowShowsLastOutcome
<1>1. UploadInv => RowShowsLastOutcome
  BY DEF UploadInv
<1> QED
  BY <1>1, Invariance, PTL

\* An upload nobody asked for is never begun: a document without a recorded
\* outcome and without an upload under way stays so (session.go: RetryUpload).
THEOREM UnaskedUploadsStayAway == Spec => UnaskedStays
<1> DEFINE Unasked(s) == \A w \in Workers : worker[w].session # s
<1>1. ASSUME UploadInv, [Next]_vars, NEW s \in saved,
             uploadStatus[s] = "", Unasked(s)
      PROVE  uploadStatus'[s] = "" /\ Unasked(s)'
  <2>1. s \in Sessions /\ s # 0 /\ worker \in [Workers -> Worker]
        /\ uploadStatus \in [Sessions -> Outcomes \cup {""}]
    <3>1. s \in Sessions
      BY <1>1 DEF UploadInv, TypeOK
    <3>2. s # 0
      BY <3>1, UploadAssumption DEF Sessions
    <3> QED
      BY <1>1, <3>1, <3>2 DEF UploadInv, TypeOK
  <2>2. ASSUME NEW w \in Workers, NEW r, r.session # s,
               worker' = [worker EXCEPT ![w] = r]
        PROVE  Unasked(s)'
    BY <1>1, <2>1, <2>2
  <2>3. ASSUME NEW w \in Workers, NEW z \in Sessions, Begin(w, z), z # s
        PROVE  Unasked(s)'
    <3> DEFINE r == [Rested EXCEPT !.at = "post", !.session = z]
    <3>1. r.session # s
      BY <2>3 DEF Rested
    <3>2. worker' = [worker EXCEPT ![w] = r]
      BY <2>3 DEF Begin
    <3> HIDE DEF r, Unasked
    <3> QED
      BY <2>2, <3>1, <3>2
  <2>4. CASE \E z \in Sessions : FinishUploading(z) \/ FinishNoUpload(z)
    BY <1>1, <2>3, <2>4
       DEF FinishUploading, FinishNoUpload, Workers, rowVars
  <2>5. CASE \E h \in Handlers, z \in Sessions : RetryUpload(h, z)
    BY <1>1, <2>3, <2>5 DEF RetryUpload, Workers, rowVars
  <2>6. ASSUME NEW w \in Workers, Post(w)
        PROVE  uploadStatus'[s] = "" /\ Unasked(s)'
    <3>1. PICK o, i : Answered(w, o, i)
      BY <2>6 DEF Post, PostSucceeds, PostUnnamed, PostFails, AnswerLost
    <3>2. Unasked(s)'
      <4> DEFINE r == [at |-> "record", session |-> worker[w].session,
                       outcome |-> o, id |-> i]
      <4>1. r.session # s
        BY <1>1
      <4>2. worker' = [worker EXCEPT ![w] = r]
        BY <3>1 DEF Answered
      <4> HIDE DEF r, Unasked
      <4> QED
        BY <2>2, <4>1, <4>2
    <3>3. uploadStatus' = uploadStatus
      BY <3>1 DEF Answered, rowVars
    <3> QED
      BY <1>1, <3>2, <3>3
  <2>7. ASSUME NEW w \in Workers, RecordUpload(w) \/ RecordUploadFails(w)
        PROVE  uploadStatus'[s] = "" /\ Unasked(s)'
    <3>1. Unasked(s)'
      <4>1. Rested.session # s
        BY <2>1 DEF Rested
      <4>2. worker' = [worker EXCEPT ![w] = Rested]
        BY <2>7 DEF RecordUpload, RecordUploadFails, Rest
      <4> HIDE DEF Unasked
      <4> QED
        BY <2>2, <4>1, <4>2
    <3>2. worker[w].session # s
      BY <1>1
    <3>3. uploadStatus'[s] = uploadStatus[s]
      BY <2>1, <2>7, <3>2 DEF RecordUpload, RecordUploadFails, rowVars
    <3> QED
      BY <1>1, <3>1, <3>3
  <2>8. CASE Crash
    BY <1>1, <2>1, <2>8 DEF Crash, rowVars, Rested
  <2>9. CASE UNCHANGED vars
    BY <1>1, <2>9 DEF vars, rowVars
  <2> QED
    BY <1>1, <2>4, <2>5, <2>6, <2>7, <2>8, <2>9 DEF Next
<1>2. UploadInv /\ [Next]_vars =>
        [\A s \in saved :
           uploadStatus[s] = "" /\ (\A w \in Workers : worker[w].session # s) =>
               /\ uploadStatus'[s] = ""
               /\ \A w \in Workers : worker'[w].session # s]_vars
  BY <1>1
<1> QED
  BY <1>2, Invariance, PTL DEF Spec, UnaskedStays
=============================================================================
