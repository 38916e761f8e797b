-------------------------- MODULE SessionProperties --------------------------
(***************************************************************************)
(* What must be true of Session: of the goroutines and the counter, of the *)
(* pages a user was told were scanned, of the database against memory and  *)
(* disk, of the order of the action log, and of what ends eventually.      *)
(***************************************************************************)
EXTENDS Session

(* Safety.                                                                 *)

ScanActions == {"scan-new", "scan-page"}

Closing == {"upload", "remove-saved", "remove-discarded"}

\* Converting goroutines belong to the session in memory and Processing counts
\* those that have not run their first deferred call: finish and discard wait
\* for all of them before they clear the session and reset the counter.
PendingIsCurrent ==
    /\ \A j \in jobs : j.session = cur
    /\ processing = Cardinality({j \in jobs : j.stage # "release"})

\* The session in memory is the one the database calls active, until its end
\* has been recorded; restarts and failed transactions included.
OpenIsActive ==
    cur # None /\ pc \notin Closing => rowStatus[cur] = "active"

\* No session is active in the database but the one in memory (or the one
\* being started), so that none stays active forever.
ActiveIsCurrent ==
    \A s \in Sessions :
        rowStatus[s] = "active" =>
            CASE pc = "down"  -> s = lastId
              [] pc = "mkdir" -> s = lastId
              [] OTHER        -> s = cur

\* The images acknowledged into a session.
Own(s) == {taken[s][i] : i \in 1..Len(taken[s])}

\* The document of a session with all its pages, in order.  A single page, which
\* the merger copies unread, may be torn if a stop cut its conversion short.
Complete(d, s) ==
    /\ d.session = s /\ Len(d.content) = Len(taken[s])
    /\ \A i \in 1..Len(taken[s]) :
           \/ d.content[i] = taken[s][i]
           \/ /\ d.content[i] = Torn /\ Len(taken[s]) = 1
              /\ crashes > 0 /\ taken[s][i] \notin converted

\* A saved session's document holds all pages acknowledged to the user, in the
\* order they were scanned, whatever restarts happened in between; and each as a
\* whole, but for the one page of a document that was never completely written.
SavedIsComplete ==
    \A s \in Sessions :
        rowStatus[s] = "saved" => Complete(docs[rowOutput[s]], s)

\* A document of a session; of several pages each was whole when they were merged.
Bound(d, s) ==
    /\ d.session = s
    /\ Len(d.content) > 1 => \A i \in 1..Len(d.content) : d.content[i] # Torn

\* Whatever fails, the document a saved session names is its own: no page of
\* another session is in it, although they share the manager, its goroutines and
\* the row that a restart picks; no page is broken if there are several; and until
\* the first stop it misses none.
SavedIsOwn ==
    \A s \in Sessions :
        rowStatus[s] = "saved" =>
            LET d == docs[rowOutput[s]]
            IN  /\ Bound(d, s)
                /\ \A i \in 1..Len(d.content) : d.content[i] \in Own(s) \cup {Torn}
                /\ crashes = 0 => d.content = taken[s]

InFiles(s, k) == \E p \in PageNos : files[s][p] = k

InDocument(s, k) ==
    /\ rowStatus[s] = "saved"
    /\ LET d == docs[rowOutput[s]]
       IN  d.session = s /\ \E i \in 1..Len(d.content) : d.content[i] = k

\* A page that was acknowledged and converted is in the scratch directory or
\* in the saved document, unless a user discarded its session.
NoPageLost ==
    \A s \in Sessions : \A i \in 1..Len(taken[s]) :
        LET k == taken[s][i]
        IN  k \in converted /\ s \notin dropped =>
                InFiles(s, k) \/ InDocument(s, k)

\* Every page acknowledged into an open session that is not aborted is on disk
\* or being written: "its pages are already durably saved".
PagesBacked ==
    cur # None /\ ~abort /\ pc # "remove-saved" =>
        \A i \in 1..Len(taken[cur]) :
            LET k == taken[cur][i]
            IN  \/ InFiles(cur, k)
                \/ \E j \in jobs : j.image = k /\ j.stage \in Converting

\* So it is for as long as the daemon has not been stopped.
BackedUntilStop == crashes = 0 => PagesBacked

\* Once no action runs, each document is the one some saved session names: a
\* stop between the merge and its record is all that leaves another one.
NoStrayDocument ==
    pc = "ready" /\ crashes = 0 =>
        \A d \in 1..Len(docs) :
            LET s == docs[d].session
            IN  rowStatus[s] = "saved" /\ rowOutput[s] = d

\* Whatever way an action ends, the status does not stay busy.
StatusSettles == pc = "ready" => status \in {"idle", "error"}

\* The goroutine of page p has not reported that it converted the page.
Reporting(p) ==
    \E j \in jobs : j.page = p /\ j.stage \in Converting \cup {"converted"}

\* Once a page's goroutine has reported, its slot in the state says whether
\* the page is on disk, and no other's; so it does for every page after a restart.
\* A page that is not whole may be shown or not.  In a session that cannot be
\* saved any more a page may have been shown that was removed again.
ShownMatchesDisk ==
    cur # None =>
        /\ Len(shown) = Len(pages)
        /\ ~abort =>
               \A i \in 1..Len(pages) :
                   \/ Reporting(i)
                   \/ /\ shown[i] => files[cur][pages[i]] # Absent
                      /\ files[cur][pages[i]] \in Images => shown[i]

Before(e, k) == \E i \in 1..(k - 1) : log[i] = e

\* "the log can never show that page's processing result ahead of its scan".
ScannedBeforeProcessed ==
    \A k \in 1..Len(log) :
        log[k].kind \in {"page-processed", "process-failed"} =>
            Before(Entry("page-scanned", log[k].session, log[k].page), k)

\* The entry that ends a session is its last but for the upload's, and there
\* is one at most: nothing of it is still running when it ends.
NothingAfterEnd ==
    \A i, k \in 1..Len(log) :
        i < k /\ log[i].session = log[k].session /\ log[i].kind \in EndKinds =>
            log[k].kind \in UploadKinds

\* So it is for as long as the daemon has not been stopped.
KeptUntilStop == crashes = 0 => NoPageLost

(* Action properties.                                                      *)

\* A session that was saved, failed or discarded stays so, with its document.
TerminalIsFinal ==
    [][\A s \in Sessions :
           rowStatus[s] \in Terminal =>
               rowStatus'[s] = rowStatus[s] /\ rowOutput'[s] = rowOutput[s]]_vars

\* Whatever fails on its way, an action that returns leaves the status settled,
\* and one that finishes or discards leaves no document open: the next key press
\* or click starts a new one.
ReturnSettles ==
    [][pc \notin {"ready", "down"} /\ pc' = "ready" =>
           StatusSettles' /\ (act \notin ScanActions => cur' = None)]_vars

(* Liveness.                                                               *)

\* Every action returns, however many conversions a finish has to wait for and
\* whether or not one of them fails, and the daemon comes back after a stop.
ActionsReturn == []<>(pc = "ready")

-----------------------------------------------------------------------------
(* The inductive invariant: what the properties above rest on.             *)

\* The session is held from the begin of a scan, and of an ending, to its end.
EndPoints == {"merge", "record-failed", "record-saved", "upload",
              "remove-saved", "record-discarded", "remove-discarded"}

HeldPoints ==
    EndPoints \cup {"begin", "acquire", "scan-failed", "add-page", "append", "refresh"}

ControlInv ==
    /\ pc \in HeldPoints => cur # None
    /\ pc \in {"create", "mkdir", "down"} => cur = None
    /\ pc \in {"ready", "down"} => act = "none"
    /\ pc \in {"scan", "create", "mkdir", "begin", "acquire", "scan-failed",
              "add-page", "append", "refresh"} => act \in ScanActions
    /\ pc = "merge" => ~abort

\* An action that scans was let in with an image and a session to spare.
RoomInv ==
    /\ act \in ScanActions /\ pc \notin {"add-page", "append", "refresh"} =>
           scans < MaxScans
    /\ act = "scan-new" \/ (act = "scan-page" /\ cur = None) =>
           \/ lastId < MaxSessions
           \/ pc \in {"mkdir", "begin", "acquire", "scan-failed", "add-page",
                     "append", "refresh"}

FreshInv ==
    /\ \A s \in Sessions : lastId < s => rowStatus[s] = "none"
    /\ pc = "mkdir" => lastId \in Sessions /\ rowStatus[lastId] = "active"

PageInv ==
    /\ \A s \in Sessions : rowPages[s] \subseteq 1..scans
    /\ Len(pages) <= scans
    /\ pc \in {"add-page", "append"} => Len(pages) < scans

\* A goroutine is known by its image; none is left once an ending has begun.
JobInv ==
    /\ IsFiniteSet(jobs)
    /\ \A j \in jobs : j.image <= scans
    /\ pc \in {"add-page", "append"} => \A j \in jobs : j.image < scans
    /\ \A j, k \in jobs : j.image = k.image => j = k
    /\ pc \in EndPoints => jobs = {}

EndLogged ==
    \A i \in 1..Len(log) :
        log[i].kind \in EndKinds => rowStatus[log[i].session] \in Terminal

IInv ==
    /\ TypeOK /\ ControlInv /\ RoomInv /\ FreshInv /\ PageInv /\ JobInv
    /\ OpenIsActive /\ PendingIsCurrent /\ EndLogged /\ NothingAfterEnd

-----------------------------------------------------------------------------
(* What documents and pages rest on, beyond IInv, where the operations on  *)
(* which a page depends do not fail.                                       *)

\* Pages are recorded and loaded.
RecordingWorks == {"add-page", "load-pages"} \cap Faults = {}

\* Every end of a session is recorded, and the restart finds what is open.
EndingWorks == {"mkdir", "finish", "find-active"} \cap Faults = {}

\* Pages are recorded, and held, under the numbers from 1 on.
NumberInv ==
    /\ \A s \in Sessions : \E n \in 0..MaxScans : rowPages[s] = 1..n
    /\ \A s \in Sessions :
           lastId < s \/ (pc = "mkdir" /\ s = lastId) =>
               rowPages[s] = {} /\ taken[s] = << >>
    /\ cur # None =>
           /\ \A i \in 1..Len(pages) : pages[i] = i
           /\ rowPages[cur] = 1..(IF pc = "append" THEN NextPage ELSE Len(pages))

\* A file belongs to a recorded page, and one goroutine at most writes it.
SlotInv ==
    /\ \A s \in Sessions : \A p \in PageNos :
           p \notin rowPages[s] => files[s][p] = Absent
    /\ pc = "append" => files[cur][NextPage] = Absent
    /\ \A j \in jobs :
           /\ j.page <= Len(pages)
           /\ j.stage = "convert" => files[j.session][j.page] = Absent
           /\ j.stage = "write" => files[j.session][j.page] = Torn
    /\ \A j, k \in jobs : j.page = k.page => j = k

\* The recorded pages of a session are the acknowledged ones, each file that is
\* there is the right one, or one that was never completed ...
Whole(s) ==
    /\ rowPages[s] =
           1..(IF s = cur /\ pc = "append" THEN Len(taken[s]) + 1 ELSE Len(taken[s]))
    /\ \A i \in 1..Len(taken[s]) :
           /\ files[s][i] \in {Absent, Torn, taken[s][i]}
           /\ files[s][i] = Torn => taken[s][i] \notin converted
    /\ \A j \in jobs :
           j.session = s =>
               j.page \in 1..Len(taken[s]) /\ j.image = taken[s][j.page]

\* ... or one of them has no file and never will have one.
Holed(s) ==
    \E i \in rowPages[s] :
        /\ files[s][i] = Absent
        /\ s = cur =>
               /\ i <= Len(pages)
               /\ \A j \in jobs : j.page = i => j.stage \notin Converting

AlignInv == \A s \in Sessions : Whole(s) \/ Holed(s)

\* An image is acknowledged and converted once.
ImageInv ==
    /\ \A s \in Sessions : \A i \in 1..Len(taken[s]) :
           /\ taken[s][i] <= scans
           /\ pc \in {"add-page", "append"} => taken[s][i] < scans
           /\ \A t \in Sessions : \A k \in 1..Len(taken[t]) :
                  taken[s][i] = taken[t][k] => s = t /\ i = k
    /\ \A j \in jobs : \E i \in 1..Len(taken[j.session]) :
           j.image = taken[j.session][i]
    /\ \A j \in jobs : j.stage \in Converting => j.image \notin converted
    /\ \A k \in converted :
           k <= scans /\ (pc \in {"add-page", "append"} => k < scans)

\* What a saved session's row names, and what it is about to name.
SavedInv ==
    /\ \A s \in Sessions :
           rowStatus[s] = "saved" =>
               /\ rowOutput[s] \in 1..Len(docs) /\ taken[s] # << >>
               /\ Complete(docs[rowOutput[s]], s)
    /\ pc = "merge" => pages # << >>
    /\ pc = "record-saved" =>
           /\ docs # << >> /\ taken[cur] # << >>
           /\ Complete(docs[Len(docs)], cur)

\* Until the first stop a torn file is one that its goroutine is writing, unless
\* its session is aborted.
TornInv ==
    /\ pc = "down" => crashes > 0
    /\ crashes = 0 /\ cur # None /\ ~abort =>
           \A p \in PageNos :
               files[cur][p] = Torn => \E j \in jobs : j.page = p /\ j.stage = "write"

DocumentInv == NumberInv /\ SlotInv /\ AlignInv /\ TornInv /\ SavedInv

\* Whatever fails, a session's files and documents hold no image but its own.
OwnInv ==
    /\ \A s \in Sessions : \A p \in PageNos :
           files[s][p] \in Own(s) \cup {Absent, Torn}
    /\ \A d \in 1..Len(docs) : \A i \in 1..Len(docs[d].content) :
           docs[d].content[i] \in Own(docs[d].session) \cup {Torn}

\* What a row names, and is about to name, is a document of its session.
NamesOwnInv ==
    /\ \A s \in Sessions :
           rowStatus[s] = "saved" =>
               rowOutput[s] \in 1..Len(docs) /\ Bound(docs[rowOutput[s]], s)
    /\ pc = "record-saved" => docs # << >> /\ Bound(docs[Len(docs)], cur)

\* Directories are removed when what they hold is in a document or not wanted.
KeptInv ==
    /\ \A s \in Sessions : \A i \in 1..Len(taken[s]) :
           taken[s][i] \in converted /\ s \notin dropped /\ rowStatus[s] # "saved" =>
               InFiles(s, taken[s][i])
    /\ pc \in {"record-discarded", "remove-discarded"} =>
           cur \in dropped \/ taken[cur] = << >>
    /\ pc \in {"upload", "remove-saved"} => rowStatus[cur] = "saved"

\* Until the first stop a page's number is its place among the acknowledged
\* ones, and its goroutine the only one to write its file ...
MatchedInv ==
    /\ pc = "down" => crashes > 0
    /\ crashes = 0 /\ cur # None =>
           /\ Len(pages) = Len(taken[cur])
           /\ \A j \in jobs :
                  j.page \in 1..Len(pages) /\ j.image = taken[cur][j.page]
           /\ \A j, k \in jobs : j.page = k.page => j = k

\* ... so that it is there or being written, if none failed.
BackedInv ==
    crashes = 0 /\ cur # None /\ ~abort =>
        \A i \in 1..Len(taken[cur]) :
            \/ files[cur][i] = taken[cur][i]
            \/ \E j \in jobs : j.page = i /\ j.stage \in Converting

\* The file of a page holds that page, as a whole or torn, or nothing; nothing if
\* its goroutine has still to write it.
FilledInv ==
    crashes = 0 =>
        /\ \A s \in Sessions : lastId < s \/ (pc = "mkdir" /\ s = lastId) =>
               \A p \in PageNos : files[s][p] = Absent
        /\ cur # None =>
               /\ \A i \in 1..Len(pages) : pages[i] = i
               /\ \A p \in PageNos :
                      \/ files[cur][p] = Absent
                      \/ /\ p <= Len(taken[cur])
                         /\ files[cur][p] \in {Torn, taken[cur][p]}
               /\ \A j \in jobs :
                      /\ j.stage = "convert" => files[cur][j.page] = Absent
                      /\ j.stage = "write" => files[cur][j.page] = Torn

\* Until then a document is named by its session's row, or about to be.
NamedInv ==
    crashes = 0 =>
        \A d \in 1..Len(docs) :
            \/ /\ rowStatus[docs[d].session] = "saved"
               /\ rowOutput[docs[d].session] = d
            \/ pc = "record-saved" /\ d = Len(docs) /\ docs[d].session = cur

\* A slot shows no page that is not on disk, and misses one at most until its
\* goroutine has reported or if it is torn.
ShownInv ==
    cur # None =>
        /\ Len(shown) = Len(pages)
        /\ ~abort =>
               \A i \in 1..Len(pages) :
                   /\ shown[i] => files[cur][i] # Absent
                   /\ Reporting(i) \/ (files[cur][i] \in Images => shown[i])

\* Sessions that were opened have ended, but for the newest.
LifeInv ==
    /\ ActiveIsCurrent
    /\ cur \in {None, lastId}
    /\ \A s \in Sessions : s <= lastId => rowStatus[s] # "none"
    /\ pc \in Closing => rowStatus[cur] # "active"

\* Where the page of an entry is recorded, if AddPage does not fail.
LoggedInv ==
    /\ \A s \in Sessions : \A p \in rowPages[s] :
           \E i \in 1..Len(log) : log[i] = Entry("page-scanned", s, p)
    /\ \A j \in jobs : j.page \in rowPages[j.session]
    /\ pc = "append" => NextPage \in rowPages[cur]

\* Where the status is not busy.
StatusInv ==
    pc \in {"down", "ready", "scan", "create", "mkdir", "begin", "refresh",
            "finish", "discard"} => status \in {"idle", "error"}
=============================================================================
