------------------------------- MODULE Upload -------------------------------
(***************************************************************************)
(* Uploading finished documents: Manager.upload after a session was saved, *)
(* under runMu, and Manager.RetryUpload from the web page, which takes no  *)
(* lock and runs beside it and beside other retries.  The row of a session *)
(* and the log are what internal/store/store.go keeps, the server is known *)
(* only by how internal/lemmary/lemmary.go talks to it.                    *)
(*                                                                         *)
(* Session has the rest of finish, and what happens when the save itself   *)
(* cannot be recorded.                                                     *)
(***************************************************************************)
EXTENDS Integers, Sequences

CONSTANTS
    MaxSessions,  \* bound: documents ever saved
    Handlers,     \* the requests for a retry the web server handles at a time
    MaxAttempts,  \* bound: uploads ever begun
    MaxCrashes,   \* bound: stops of the daemon
    MaxFaults,    \* bound: operations that fail
    Faults        \* the kinds of operation that may fail

FaultKinds == {"refuse", "lose", "unnamed", "record"}

ASSUME UploadAssumption ==
    /\ MaxSessions \in Nat \ {0}
    /\ MaxAttempts \in Nat \ {0}
    /\ MaxCrashes \in Nat
    /\ MaxFaults \in Nat
    /\ Faults \subseteq FaultKinds
    /\ "loop" \notin Handlers

Sessions == 1..MaxSessions
Workers  == {"loop"} \cup Handlers   \* the goroutines that may call upload

NoId == 0                            \* lemmary_id is empty
Ids  == Nat                          \* records on the server, as they come
Outcomes == {"failed", "uploaded"}

Worker ==
    [at : {"idle", "post", "record"}, session : Sessions \cup {0},
     outcome : Outcomes \cup {""}, id : Ids]

Rested == [at |-> "idle", session |-> 0, outcome |-> "", id |-> NoId]

VARIABLES
    saved,         \* the sessions whose row has an output path
    uploadStatus,  \* sessions.upload_status
    lemmaryId,     \* sessions.lemmary_id
    log,           \* the upload entries of the actions table
    server,        \* what the server took, in order: whose document
    worker,        \* where each goroutine is
    unnamed,       \* history: the sessions an answer accepted without an id
    attempts, crashes, faults

rowVars == <<uploadStatus, lemmaryId>>
vars == <<saved, rowVars, log, server, worker, unnamed, attempts, crashes,
          faults>>

Init ==
    /\ saved = {}
    /\ uploadStatus = [s \in Sessions |-> ""]
    /\ lemmaryId = [s \in Sessions |-> NoId]
    /\ log = << >> /\ server = << >>
    /\ worker = [w \in Workers |-> Rested] /\ unnamed = {}
    /\ attempts = 0 /\ crashes = 0 /\ faults = 0

Fault(k) == k \in Faults /\ faults < MaxFaults /\ faults' = faults + 1

Begin(w, s) ==
    /\ worker[w].at = "idle" /\ attempts < MaxAttempts
    /\ attempts' = attempts + 1
    /\ worker' = [worker EXCEPT ![w] = [Rested EXCEPT !.at = "post", !.session = s]]

\* finish saves a document and goes on to upload it.
FinishUploading(s) ==
    /\ s \notin saved /\ Begin("loop", s)
    /\ saved' = saved \cup {s}
    /\ UNCHANGED <<rowVars, log, server, unnamed, crashes, faults>>

\* It does not when asked not to.
FinishNoUpload(s) ==
    /\ s \notin saved /\ worker["loop"].at = "idle"
    /\ saved' = saved \cup {s}
    /\ UNCHANGED <<rowVars, log, server, worker, unnamed, attempts, crashes, faults>>

\* Mutation of RetryUpload: the status is not looked at.
RetryUploadUnchecked(h, s) ==
    /\ s \in saved
    /\ Begin(h, s)
    /\ UNCHANGED <<saved, rowVars, log, server, unnamed, crashes, faults>>

\* A retry that finds no document, or another status, is refused and changes
\* nothing.  The row is read once, before the upload.
RetryUpload(h, s) ==
    /\ s \in saved /\ uploadStatus[s] = "failed"
    /\ Begin(h, s)
    /\ UNCHANGED <<saved, rowVars, log, server, unnamed, crashes, faults>>

Answered(w, outcome, id) ==
    /\ worker[w].at = "post"
    /\ worker' = [worker EXCEPT ![w] = [at |-> "record", session |-> @.session,
                                        outcome |-> outcome, id |-> id]]
    /\ UNCHANGED <<saved, rowVars, log, attempts, crashes>>

\* The server stores the document and answers with the id of its record.
PostSucceeds(w) ==
    /\ Answered(w, "uploaded", Len(server) + 1)
    /\ server' = Append(server, worker[w].session)
    /\ UNCHANGED <<unnamed, faults>>

\* Nobody looks at the id of an answer: one without it counts as a success too,
\* whether or not there is a document behind it.
PostUnnamed(w) ==
    /\ Answered(w, "uploaded", NoId) /\ Fault("unnamed")
    /\ \/ server' = Append(server, worker[w].session)
       \/ UNCHANGED server
    /\ unnamed' = unnamed \cup {worker[w].session}

\* It is not reached, refuses, or the request is cancelled.
PostFails(w) ==
    /\ Answered(w, "failed", NoId) /\ Fault("refuse")
    /\ UNCHANGED <<server, unnamed>>

\* Mutation of AnswerLost: an answer that cannot be decoded is not an error.
AnswerLostIgnored(w) ==
    /\ Answered(w, "uploaded", NoId) /\ Fault("lose")
    /\ server' = Append(server, worker[w].session)
    /\ UNCHANGED unnamed

\* It stores the document, but the answer is lost or cannot be read.
AnswerLost(w) ==
    /\ Answered(w, "failed", NoId) /\ Fault("lose")
    /\ server' = Append(server, worker[w].session)
    /\ UNCHANGED unnamed

Rest(w) == worker' = [worker EXCEPT ![w] = Rested]

\* Mutation of RecordUpload: a failure is logged, the row stays as it was.
RecordUploadLogOnly(w) ==
    LET t == worker[w]
    IN  /\ t.at = "record" /\ Rest(w)
        /\ IF t.outcome = "failed" THEN UNCHANGED rowVars
           ELSE /\ uploadStatus' = [uploadStatus EXCEPT ![t.session] = t.outcome]
                /\ lemmaryId' = [lemmaryId EXCEPT ![t.session] = t.id]
        /\ log' = Append(log, [session |-> t.session, outcome |-> t.outcome])
        /\ UNCHANGED <<saved, server, unnamed, attempts, crashes, faults>>

\* RecordUploadWithAction: status, id and log entry in one transaction.
RecordUpload(w) ==
    LET t == worker[w]
    IN  /\ t.at = "record" /\ Rest(w)
        /\ uploadStatus' = [uploadStatus EXCEPT ![t.session] = t.outcome]
        /\ lemmaryId' = [lemmaryId EXCEPT ![t.session] = t.id]
        /\ log' = Append(log, [session |-> t.session, outcome |-> t.outcome])
        /\ UNCHANGED <<saved, server, unnamed, attempts, crashes, faults>>

\* A warning tells of it and nothing else.
RecordUploadFails(w) ==
    /\ worker[w].at = "record" /\ Rest(w)
    /\ Fault("record")
    /\ UNCHANGED <<saved, rowVars, log, server, unnamed, attempts, crashes>>

\* The daemon stops and is started again: uploads under way are forgotten.
Crash ==
    /\ crashes < MaxCrashes /\ crashes' = crashes + 1
    /\ worker' = [w \in Workers |-> Rested]
    /\ UNCHANGED <<saved, rowVars, log, server, unnamed, attempts, faults>>

Post(w) == PostSucceeds(w) \/ PostUnnamed(w) \/ PostFails(w) \/ AnswerLost(w)

Next ==
    \/ \E s \in Sessions : FinishUploading(s) \/ FinishNoUpload(s)
    \/ \E h \in Handlers, s \in Sessions : RetryUpload(h, s)
    \/ \E w \in Workers : Post(w) \/ RecordUpload(w) \/ RecordUploadFails(w)
    \/ Crash

Spec == Init /\ [][Next]_vars

-----------------------------------------------------------------------------

\* Every variable has its type.
TypeOK ==
    /\ saved \subseteq Sessions
    /\ uploadStatus \in [Sessions -> Outcomes \cup {""}]
    /\ lemmaryId \in [Sessions -> Ids]
    /\ log \in Seq([session : Sessions, outcome : Outcomes])
    /\ server \in Seq(Sessions)
    /\ worker \in [Workers -> Worker]
    /\ unnamed \subseteq Sessions
    /\ attempts \in 0..MaxAttempts
    /\ crashes \in 0..MaxCrashes
    /\ faults \in 0..MaxFaults

\* What an upload that succeeded knows of session s: an id that leads to the
\* session's own document, or, from an answer that named none, no id.
Found(s, id) ==
    \/ id \in 1..Len(server) /\ server[id] = s
    \/ id = NoId /\ s \in unnamed

\* The id of a session shown as uploaded leads to its own document on the server,
\* however attempts raced and whatever was lost; it is missing only if the server
\* once took that document without naming one.  No other session has an id.
UploadedIsOnServer ==
    \A s \in Sessions :
        IF uploadStatus[s] = "uploaded"
        THEN Found(s, lemmaryId[s])
        ELSE lemmaryId[s] = NoId

\* The row shows the outcome that was logged last, or none.
LoggedLast(s, outcome) ==
    \E i \in 1..Len(log) :
        /\ log[i] = [session |-> s, outcome |-> outcome]
        /\ \A k \in (i + 1)..Len(log) : log[k].session # s

NeverLogged(s) == \A i \in 1..Len(log) : log[i].session # s

RowShowsLastOutcome ==
    \A s \in Sessions :
        \/ LoggedLast(s, uploadStatus[s])
        \/ NeverLogged(s) /\ uploadStatus[s] = ""

\* No document reaches the server twice: a retry is refused "rather than
\* uploading a document twice by accident".
UploadedOnce ==
    \A i, k \in 1..Len(server) : i < k => server[i] # server[k]

\* A document saved without an upload, or whose outcome was never recorded, is
\* left alone: only a failed upload can be retried.
UnaskedStays ==
    [][\A s \in saved :
           uploadStatus[s] = "" /\ (\A w \in Workers : worker[w].session # s) =>
               /\ uploadStatus'[s] = ""
               /\ \A w \in Workers : worker'[w].session # s]_vars

-----------------------------------------------------------------------------
(* The inductive invariant: what an outcome waiting to be recorded says is *)
(* so on the server, and stays so while other uploads go on.               *)

OutcomeInv ==
    \A w \in Workers :
        LET t == worker[w]
        IN  /\ t.at # "idle" => t.session \in Sessions
            /\ t.at = "record" =>
                  IF t.outcome = "uploaded"
                  THEN Found(t.session, t.id)
                  ELSE t.outcome = "failed" /\ t.id = NoId

UploadInv == TypeOK /\ OutcomeInv /\ UploadedIsOnServer /\ RowShowsLastOutcome
=============================================================================
